---------------------------- MODULE Spec2Model ----------------------------
(***************************************************************************)
(* External Sync Bridge (src/src/main.ts): the plugin's life cycle and     *)
(* scheduler, its bulk runs, and the sync engine (validateTask and the     *)
(* filtered recursive copy of syncTaskInternal) as one state machine.      *)
(*                                                                         *)
(* Paths are POSIX paths (path.sep = "/"), held as sequences of segments.  *)
(* The three specifications share the program's actions and differ in the  *)
(* events the user and the environment produce:                            *)
(*   Spec      life cycle, settings saves, import and the scheduler;       *)
(*   SpecSync  one task, validated and synced against a varied file system;*)
(*   SpecBulk  bulk runs over several tasks, edited while a run is in      *)
(*             flight.                                                     *)
(***************************************************************************)
EXTENDS Integers, Sequences, FiniteSets, TLC

VARIABLES
    phase,               \* "new" | "loading" | "loaded": where onload stands
    unloaded,            \* onunload has run
    data,                \* the persisted plugin data (what loadData returns)
    settings,            \* this.settings
    taskObjs,            \* the heap of SyncTask objects, by object identity
    saving,              \* saveData calls in flight, by the handler that waits for them
    timers,              \* window's live timers
    nextTimerId,         \* the handle window hands out next
    scheduleIntervalId,  \* this.scheduleIntervalId
    scheduleTimeoutId,   \* this.scheduleTimeoutId
    notice,              \* the last Notice shown
    fs,                  \* the file system: absolute path -> entry
    runs,                \* syncAllTasks calls, in flight or reported
    last,                \* the last syncSingleTask call: what it did
    prev,                \* the syncSingleTask call before it
    clock                \* the time, the time zone's change of offset, the fires so far

vars == <<phase, unloaded, data, settings, taskObjs, saving, timers, nextTimerId,
          scheduleIntervalId, scheduleTimeoutId, notice, fs, runs, last, prev, clock>>

schedVars == <<timers, nextTimerId, scheduleIntervalId, scheduleTimeoutId>>
engineVars == <<fs, runs, last, prev>>

-----------------------------------------------------------------------------
(* Bounds of the model *)

MaxPending == 2      \* saveData calls in flight at once
MaxTimerId == 4      \* timer handles window hands out in one behaviour
MaxRuns == 1         \* syncAllTasks calls in flight or not yet dismissed
MaxFires == 2        \* timer fires in one behaviour (SpecTimed)
MaxTargetLen == 3    \* segments of a target path (SpecSync)
MaxDepth == 2        \* depth of a source tree (SpecSync)
MaxEntries == 3      \* entries of a source tree (SpecSync)

IntervalInputs == {0, 2}                 \* what the user types as the interval
DailyInputs == {"09:00", "25:99"}        \* what the user types as the daily time

\* What loadData returns in Spec: nothing (a first start), or settings saved
\* by an earlier session, possibly by an older version (keys missing)
PersistedInputs ==
    { <<>>,
      [scheduleEnabled |-> TRUE],
      [scheduleEnabled |-> TRUE, scheduleMode |-> "daily", dailyTime |-> "21:30"],
      [scheduleEnabled |-> TRUE, autoSyncOnLoad |-> TRUE, intervalMinutes |-> 0] }

\* What the user imports in Spec: JSON that parses to these objects
ImportInputs ==
    { [scheduleEnabled |-> FALSE],
      [scheduleEnabled |-> TRUE, scheduleMode |-> "daily"],
      [scheduleEnabled |-> TRUE, scheduleMode |-> "weekly", compareMode |-> "sha1"] }

-----------------------------------------------------------------------------
(* Values *)

NULL == 0            \* null: no timer handle (window's handles start at 1)
NONE == "none"

Max(a, b) == IF a >= b THEN a ELSE b
Min(a, b) == IF a <= b THEN a ELSE b


-----------------------------------------------------------------------------
(* Strings that hold paths.  A path string is its segments (the text       *)
(* between separators), whether it starts with a separator, and whether it *)
(* ends with one.  undef: the property is missing on the object (a task    *)
(* that came from imported or persisted JSON without it).                  *)

Str(abs, segs, trail) == [undef |-> FALSE, abs |-> abs, segs |-> segs, trail |-> trail]
UNDEFINED == [undef |-> TRUE, abs |-> FALSE, segs |-> <<>>, trail |-> FALSE]
EmptyStr == Str(FALSE, <<>>, FALSE)

BLANK == " "                    \* a segment of white space only
DotDotNames == {"..", "..x"}    \* the segments whose text starts with ".."

\* String.prototype.trim() === "": nothing but white space
TrimIsEmpty(s) == ~s.abs /\ ~s.trail /\ s.segs \in {<<>>, <<BLANK>>}

\* String.prototype.startsWith(".."), of a relative path's text
StartsWithDotDot(segs) == segs # <<>> /\ segs[1] \in DotDotNames

\* String.prototype.endsWith("/") (path.sep is "/" as well)
EndsWithSep(s) == s.trail \/ (s.abs /\ s.segs = <<>>)

RECURSIVE NormSegs(_, _, _)
\* path.normalize's walk over the segments: "." dropped, ".." pops a name,
\* stays when there is none to pop in a relative path, is dropped at the root
NormSegs(segs, abs, acc) ==
    IF segs = <<>> THEN acc
    ELSE LET s == Head(segs)
             n == Len(acc)
         IN  IF s = "." THEN NormSegs(Tail(segs), abs, acc)
             ELSE IF s = ".."
                  THEN IF n > 0 /\ acc[n] # ".."
                       THEN NormSegs(Tail(segs), abs, SubSeq(acc, 1, n - 1))
                       ELSE IF abs THEN NormSegs(Tail(segs), abs, acc)
                            ELSE NormSegs(Tail(segs), abs, Append(acc, s))
                  ELSE NormSegs(Tail(segs), abs, Append(acc, s))

\* path.normalize
Normalize(s) == Str(s.abs, NormSegs(s.segs, s.abs, <<>>), s.trail)

\* path.join(a, b), a absolute
Join(a, b) == Str(TRUE, NormSegs(a.segs \o b.segs, TRUE, <<>>), b.trail)

\* path.isAbsolute
IsAbsolute(s) == s.abs

Cwd == <<>>                     \* the process's working directory: "/"

\* path.resolve: the absolute segments a path denotes
Resolve(s) == IF s.abs THEN NormSegs(s.segs, TRUE, <<>>)
              ELSE NormSegs(Cwd \o s.segs, TRUE, <<>>)

RECURSIVE CommonLen(_, _)
CommonLen(a, b) ==
    IF a = <<>> \/ b = <<>> \/ Head(a) # Head(b) THEN 0
    ELSE 1 + CommonLen(Tail(a), Tail(b))

\* path.relative(from, to): the segments of the relative path
Relative(from, to) ==
    LET f == Resolve(from)
        t == Resolve(to)
        k == CommonLen(f, t)
    IN  [i \in 1..(Len(f) - k) |-> ".."] \o SubSeq(t, k + 1, Len(t))

\* path.basename, path.dirname
Basename(s) == IF s.segs = <<>> THEN <<>> ELSE <<s.segs[Len(s.segs)]>>
Dirname(s) == Str(s.abs, IF s.segs = <<>> THEN <<>> ELSE SubSeq(s.segs, 1, Len(s.segs) - 1), FALSE)

IsPrefix(a, b) == Len(a) <= Len(b) /\ SubSeq(b, 1, Len(a)) = a

-----------------------------------------------------------------------------
(* The file system: a function from the absolute paths that exist (as      *)
(* segments) to what is there.                                             *)

VaultRoot == <<"vault">>        \* adapter.getBasePath()
VaultBase == Str(TRUE, VaultRoot, FALSE)

TicksPerMs == 2                 \* a file time has a fraction of a millisecond

DirEntry == [kind |-> "dir", content |-> "", mtime |-> 0, readable |-> TRUE]
FileEntry(c, m) == [kind |-> "file", content |-> c, mtime |-> m, readable |-> TRUE]

\* stat.size
Size(c) == CASE c = "" -> 0 [] c \in {"x", "y"} -> 1 [] OTHER -> 2

\* Math.floor(stat.mtimeMs)
FloorMs(m) == m \div TicksPerMs

\* What a lookup of the path finds: its kind, or the error stat raises
Lookup(f, s) ==
    LET p == Resolve(s)
        bad == {i \in 0..(Len(p) - 1) :
                   SubSeq(p, 1, i) \notin DOMAIN f \/ f[SubSeq(p, 1, i)].kind # "dir"}
    IN  IF bad # {}
        THEN LET i == CHOOSE j \in bad : \A k \in bad : j <= k
             IN  IF SubSeq(p, 1, i) \in DOMAIN f THEN "ENOTDIR" ELSE "ENOENT"
        ELSE IF p \notin DOMAIN f THEN "ENOENT"
        ELSE IF s.trail /\ f[p].kind # "dir" THEN "ENOTDIR"
        ELSE f[p].kind

\* fs.existsSync: false on any error
ExistsSync(f, s) == Lookup(f, s) \in {"file", "dir"}
\* fs.statSync(s).isFile() / .isDirectory(), of a path that exists
IsFile(f, s) == Lookup(f, s) = "file"
IsDirectory(f, s) == Lookup(f, s) = "dir"

-----------------------------------------------------------------------------
(* validateTask (main.ts 215-256) *)

R_SourceEmpty == "source path is empty"                         \* line 220
R_TargetEmpty == "target path is empty"                         \* line 223
R_SourceMissing == "source path does not exist"                 \* line 228
R_TargetAbsolute == "target path must be relative to the vault" \* line 232
R_TargetOutside == "target path must stay inside the vault"     \* line 239
R_DirOntoFile == "cannot copy a directory onto an existing file" \* line 251
R_SyncFailed == "sync failed"                                   \* line 387

Invalid(reason) ==
    [ok |-> FALSE, threw |-> FALSE, reason |-> reason, source |-> EmptyStr, target |-> EmptyStr]
Valid(source, target) ==
    [ok |-> TRUE, threw |-> FALSE, reason |-> "", source |-> source, target |-> target]
\* An exception leaves validateTask (a TypeError: .trim() of undefined)
Threw == [ok |-> FALSE, threw |-> TRUE, reason |-> "", source |-> EmptyStr, target |-> EmptyStr]

\* validateTask without the test of line 238
LeavesVaultNever(rel) == FALSE

\* line 238: the test that the target stays in the vault
LeavesVault(rel) == StartsWithDotDot(rel)

\* The final target with only the trailing separator looked at (line 246
\* without its existsSync/isDirectory half)
FinalTargetBySeparatorOnly(task, f, source, targetAbs) ==
    IF IsFile(f, source)
    THEN IF EndsWithSep(task.targetPath)
         THEN Valid(source, Join(targetAbs, Str(FALSE, Basename(source), FALSE)))
         ELSE Valid(source, targetAbs)
    ELSE IF IsDirectory(f, source) /\ ExistsSync(f, targetAbs) /\ IsFile(f, targetAbs)
         THEN Invalid(R_DirOntoFile)
         ELSE Valid(source, targetAbs)

\* lines 242-255: the final target, or the refusal of a directory onto a file
FinalTarget(task, f, source, targetAbs) ==
    IF IsFile(f, source)
    THEN IF EndsWithSep(task.targetPath) \/ (ExistsSync(f, targetAbs) /\ IsDirectory(f, targetAbs))
         THEN Valid(source, Join(targetAbs, Str(FALSE, Basename(source), FALSE)))
         ELSE Valid(source, targetAbs)
    ELSE IF IsDirectory(f, source) /\ ExistsSync(f, targetAbs) /\ IsFile(f, targetAbs)
         THEN Invalid(R_DirOntoFile)
         ELSE Valid(source, targetAbs)

validateTask(task, f) ==
    IF task.sourcePath.undef THEN Threw
    ELSE IF TrimIsEmpty(task.sourcePath) THEN Invalid(R_SourceEmpty)
    ELSE IF task.targetPath.undef THEN Threw
    ELSE IF TrimIsEmpty(task.targetPath) THEN Invalid(R_TargetEmpty)
    ELSE LET source == Normalize(task.sourcePath)
         IN  IF ~ExistsSync(f, source) THEN Invalid(R_SourceMissing)
             ELSE IF IsAbsolute(task.targetPath) THEN Invalid(R_TargetAbsolute)
             ELSE LET targetBase == Normalize(task.targetPath)
                      targetAbs == Join(VaultBase, targetBase)
                      rel == Relative(VaultBase, targetAbs)
                  IN  IF LeavesVault(rel) THEN Invalid(R_TargetOutside)
                      ELSE FinalTarget(task, f, source, targetAbs)

-----------------------------------------------------------------------------
(* Exclusion: micromatch.isMatch(relPosix, excludePatterns, { dot: true }) *)
(* (main.ts 348-351).  A pattern is its segments: "**" stands for any      *)
(* number of segments, "*" for one segment, any other text for itself.     *)

\* A segment whose name starts with a dot: a wildcard matches it only with dot
IsDotName(seg) == seg \in {".DS_Store", "..x"}

RECURSIVE MatchSegs(_, _, _)
MatchSegs(path, pat, dot) ==
    IF pat = <<>> THEN path = <<>>
    ELSE IF Head(pat) = "**"
         THEN \/ MatchSegs(path, Tail(pat), dot)
              \/ /\ path # <<>>
                 /\ (dot \/ ~IsDotName(Head(path)))
                 /\ MatchSegs(Tail(path), pat, dot)
         ELSE /\ path # <<>>
              /\ \/ Head(pat) = Head(path)
                 \/ Head(pat) = "*" /\ (dot \/ ~IsDotName(Head(path)))
              /\ MatchSegs(Tail(path), Tail(pat), dot)

\* micromatch.isMatch(rel, patterns, { dot }): any pattern matches
IsMatch(rel, patterns, dot) ==
    \E i \in 1..Len(patterns) : MatchSegs(rel, patterns[i], dot)

\* A pattern micromatch rejects: the empty string (as a non-string element
\* is); isMatch then throws a TypeError instead of answering
MalformedPattern == <<>>
IsMatchThrows(patterns) == \E i \in 1..Len(patterns) : patterns[i] = MalformedPattern

\* lines 345-351: the filter's exclusion decision; the root entry is never excluded
IsExcluded(rel, patterns) ==
    IF rel = <<>> THEN FALSE
    ELSE Len(patterns) > 0 /\ IsMatch(rel, patterns, TRUE)

\* lines 361-375: an existing destination file is up to date
Unchanged(srcE, destE, compareMode) ==
    IF compareMode = "hash"
    THEN srcE.content = destE.content
    ELSE /\ Size(destE.content) = Size(srcE.content)
         /\ FloorMs(destE.mtime) = FloorMs(srcE.mtime)

\* The filter with the exclusion applied to files only: directories are
\* always entered
FilterEntersDirs(f, sourceRoot, src, dest, patterns, compareMode) ==
    LET rel == SubSeq(src, Len(sourceRoot) + 1, Len(src))
    IN  IF rel = <<>> \/ f[src].kind = "dir" THEN "copy"
        ELSE IF IsExcluded(rel, patterns) THEN "exclude"
        ELSE IF dest \in DOMAIN f /\ f[dest].kind = "file"
                /\ Unchanged(f[src], f[dest], compareMode)
             THEN "skip"
             ELSE "copy"

\* The filter with a failed read while hashing taken as "up to date"
FilterSkipsOnError(f, sourceRoot, src, dest, patterns, compareMode) ==
    LET rel == SubSeq(src, Len(sourceRoot) + 1, Len(src))
    IN  IF rel = <<>> THEN "copy"
        ELSE IF IsExcluded(rel, patterns) THEN "exclude"
        ELSE IF f[src].kind = "dir" THEN "copy"
        ELSE IF dest \in DOMAIN f /\ f[dest].kind = "file"
             THEN IF compareMode = "hash" /\ ~(f[src].readable /\ f[dest].readable)
                  THEN "skip"
                  ELSE IF Unchanged(f[src], f[dest], compareMode) THEN "skip" ELSE "copy"
             ELSE "copy"

\* lines 344-382: the filter: "exclude", "skip" (up to date), "copy", or
\* "throw" (isMatch, line 349, is outside the try of line 353).
\* src and dest are absolute segments; a failed read while hashing is caught
\* and the file copied (lines 378-381)
Filter(f, sourceRoot, src, dest, patterns, compareMode) ==
    LET rel == SubSeq(src, Len(sourceRoot) + 1, Len(src))
    IN  IF rel = <<>> THEN "copy"
        ELSE IF IsMatchThrows(patterns) THEN "throw"
        ELSE IF IsExcluded(rel, patterns) THEN "exclude"
        ELSE IF f[src].kind = "dir" THEN "copy"
        ELSE IF dest \in DOMAIN f /\ f[dest].kind = "file"
             THEN IF compareMode = "hash" /\ ~(f[src].readable /\ f[dest].readable)
                  THEN "copy"
                  ELSE IF Unchanged(f[src], f[dest], compareMode) THEN "skip" ELSE "copy"
             ELSE "copy"

-----------------------------------------------------------------------------
(* fs-extra's ensureDir and copy, as syncTaskInternal calls them           *)
(* (main.ts 334-383): overwrite, preserveTimestamps and the filter above.  *)
(* A copy in progress is a record: the file system so far, whether an      *)
(* error was raised, and what was done (for the properties).               *)

Children(f, dir) == {p \in DOMAIN f : Len(p) = Len(dir) + 1 /\ IsPrefix(dir, p)}

CopyState(f) ==
    [fs |-> f, err |-> FALSE, written |-> {}, made |-> {}, excluded |-> {},
     skipped |-> {}, visited |-> {}]

RECURSIVE Mkdirs(_, _, _)
\* fsExtra.ensureDir: mkdir -p from the i-th segment on; an existing file in
\* the way is an error
Mkdirs(st, p, i) ==
    IF i > Len(p) THEN st
    ELSE LET q == SubSeq(p, 1, i)
         IN  IF q \in DOMAIN st.fs
             THEN IF st.fs[q].kind = "dir" THEN Mkdirs(st, p, i + 1)
                  ELSE [st EXCEPT !.err = TRUE]
             ELSE Mkdirs([st EXCEPT !.fs = (q :> DirEntry) @@ st.fs,
                                    !.made = @ \cup {q}], p, i + 1)

\* preserveTimestamps: utimes with the source's times as Dates, whole milliseconds
DateOf(m) == FloorMs(m) * TicksPerMs

\* fs-extra's onFile: the destination file replaced by the source's bytes
CopyFile(st, src, dest) ==
    IF ~st.fs[src].readable THEN [st EXCEPT !.err = TRUE]
    ELSE [st EXCEPT !.fs = (dest :> FileEntry(st.fs[src].content, DateOf(st.fs[src].mtime))) @@ st.fs,
                    !.written = @ \cup {dest}]

RECURSIVE CopyItem(_, _, _, _, _, _)
RECURSIVE CopyItems(_, _, _, _, _, _, _)

\* fs-extra's onDir loop: every entry of the directory, each through the filter
CopyItems(st, sourceRoot, src, dest, items, patterns, compareMode) ==
    IF items = {} THEN st
    ELSE LET item == CHOOSE p \in items : TRUE
             name == item[Len(item)]
             after == CopyItem(st, sourceRoot, item, Append(dest, name), patterns, compareMode)
         IN  CopyItems(after, sourceRoot, src, dest, items \ {item}, patterns, compareMode)

\* One entry: the filter, fs-extra's checkPaths, then onDir or onFile
CopyItem(st, sourceRoot, src, dest, patterns, compareMode) ==
    LET f == st.fs
        decision == Filter(f, sourceRoot, src, dest, patterns, compareMode)
        seen == [st EXCEPT !.visited = @ \cup {src}]
    IN  IF decision = "throw" THEN [st EXCEPT !.err = TRUE]
        ELSE IF decision = "exclude" THEN [st EXCEPT !.excluded = @ \cup {src}]
        ELSE IF decision = "skip" THEN [seen EXCEPT !.skipped = @ \cup {src}]
        ELSE IF dest \in DOMAIN f /\ f[dest].kind # f[src].kind
             THEN [seen EXCEPT !.err = TRUE]
        ELSE IF f[src].kind = "dir"
             THEN LET opened == IF dest \in DOMAIN f THEN seen
                                ELSE [seen EXCEPT !.fs = (dest :> DirEntry) @@ f,
                                                  !.made = @ \cup {dest}]
                  IN  CopyItems(opened, sourceRoot, src, dest, Children(f, src),
                                patterns, compareMode)
             ELSE CopyFile(seen, src, dest)

\* fsExtra.copy(source, target, ...): checkPaths of the two roots, then the tree
Copy(st, source, target, patterns, compareMode) ==
    LET src == Resolve(source)
        dest == Resolve(target)
        found == Lookup(st.fs, target)
    IN  IF found = "ENOTDIR" \/ src = dest
           \/ (st.fs[src].kind = "dir" /\ IsPrefix(src, dest))
        THEN [st EXCEPT !.err = TRUE]
        ELSE CopyItem(st, src, src, dest, patterns, compareMode)

-----------------------------------------------------------------------------
(* syncTaskInternal (main.ts 322-389) *)

\* lines 334-387: ensureDir, then the copy; any error is caught
CopyTask(f, v, s) ==
    LET ensured == Mkdirs(CopyState(f), Resolve(Dirname(v.target)), 1)
    IN  IF ensured.err THEN ensured
        ELSE Copy(ensured, v.source, v.target, s.excludePatterns, s.compareMode)

\* The outcome of one task: the result returned (or the exception thrown),
\* the file system left, and what the copy did
Outcome(v, st, copied) ==
    [ok |-> v.ok /\ ~st.err, threw |-> v.threw,
     reason |-> IF ~v.ok THEN v.reason ELSE IF st.err THEN R_SyncFailed ELSE "",
     validation |-> v, copied |-> copied, fs |-> st.fs, written |-> st.written,
     made |-> st.made, excluded |-> st.excluded, skipped |-> st.skipped,
     visited |-> st.visited]

\* syncTaskInternal with the target's directory made before the validation
syncTaskInternalEager(task, f, s) ==
    LET made == Mkdirs(CopyState(f), Resolve(Join(VaultBase, Normalize(task.targetPath))), 1)
        v == validateTask(task, f)
    IN  IF ~v.ok THEN Outcome(v, made, FALSE)
        ELSE Outcome(v, CopyTask(f, v, s), TRUE)

syncTaskInternal(task, f, s) ==
    LET v == validateTask(task, f)
    IN  IF ~v.ok THEN Outcome(v, CopyState(f), FALSE)
        ELSE Outcome(v, CopyTask(f, v, s), TRUE)

-----------------------------------------------------------------------------
(* Settings (main.ts 8-36, 69-98) *)

SettingKeys == {"tasks", "autoSyncOnLoad", "excludePatterns", "compareMode",
                "scheduleEnabled", "scheduleMode", "intervalMinutes", "dailyTime"}

DEFAULT_SETTINGS ==
    [tasks |-> <<>>,
     autoSyncOnLoad |-> FALSE,
     excludePatterns |-> << <<"**", "node_modules", "**">>, <<"**", ".DS_Store">> >>,
     compareMode |-> "mtime",
     scheduleEnabled |-> FALSE,
     scheduleMode |-> "interval",
     intervalMinutes |-> 60,
     dailyTime |-> "09:00"]

\* Object.assign({}, DEFAULT_SETTINGS, obj): the keys obj has win.  The tasks
\* of obj are task values; they become objects of the heap (see Adopt)
Assign(obj) ==
    [k \in SettingKeys |-> IF k \in DOMAIN obj THEN obj[k] ELSE DEFAULT_SETTINGS[k]]

\* The task objects a parsed JSON value brings: allocated after the heap's
\* objects; settings.tasks holds their identities
Adopt(merged, heap) ==
    [merged EXCEPT !.tasks = [i \in 1..Len(merged.tasks) |-> Len(heap) + i]]
AdoptHeap(merged, heap) == heap \o merged.tasks

\* JSON.stringify(this.settings): the tasks by value
Serialize(s, heap) == [s EXCEPT !.tasks = [i \in 1..Len(s.tasks) |-> heap[s.tasks[i]]]]

\* normalizeSettings (lines 89-98), on the values the model holds
normalizeSettings(s) ==
    [s EXCEPT !.compareMode = IF @ = "hash" THEN "hash" ELSE "mtime",
              !.scheduleMode = IF @ = "daily" THEN "daily" ELSE "interval"]

-----------------------------------------------------------------------------
(* The scheduler (main.ts 162-205).  Its state is window's table of live   *)
(* timers and the two handles the plugin keeps.                            *)

\* Time is counted in units of 32 ms, the largest unit that divides a minute
\* and the range of a timer's delay alike
MinuteUnits == (60 * 1000) \div 32
DayMinutes == 1440              \* 24 * 60 * 60 * 1000 ms, line 203
DayUnits == DayMinutes * MinuteUnits

\* The delay window.setInterval and window.setTimeout use: their timeout
\* parameter is a WebIDL long, so the number of milliseconds is taken modulo
\* 2^32 into -2^31 .. 2^31 - 1, and a negative delay is 0
WindowDelay(units) ==
    LET range == 2^27
        wrapped == ((units + range \div 2) % range) - range \div 2
    IN  IF wrapped < 0 THEN 0 ELSE wrapped

\* The local time of the Date objects of lines 192-197.  Instants are counted
\* from a local midnight; the zone changes its offset once, at the instant
\* zone.at, by zone.by (0: never; > 0: clocks go forward; < 0: clocks go back)
LocalOf(zone, t) == IF zone.by # 0 /\ t >= zone.at THEN t + zone.by ELSE t

\* The instant of a local time; a local time that occurs twice or never is
\* taken with the offset before the change (ECMAScript's UTC(t))
InstantOf(zone, local) ==
    IF zone.by = 0 \/ local < zone.at THEN local
    ELSE IF local - zone.by >= zone.at THEN local - zone.by
    ELSE local

\* line 194: next.setHours(hour, minute, 0, 0)
SetHours(zone, t, hour, minute) ==
    InstantOf(zone, (LocalOf(zone, t) \div DayUnits) * DayUnits
                    + (hour * 60 + minute) * MinuteUnits)

\* line 196: next.setDate(next.getDate() + 1)
AddDay(zone, t) == InstantOf(zone, LocalOf(zone, t) + DayUnits)


Sched == [timers |-> timers, nextId |-> nextTimerId,
          intervalId |-> scheduleIntervalId, timeoutId |-> scheduleTimeoutId]

\* window.clearInterval / window.clearTimeout: the live timer of that handle, if any
ClearTimer(sc, id) == [sc EXCEPT !.timers = {t \in @ : t.id # id}]

\* window.setInterval / window.setTimeout: a live timer under a fresh handle,
\* due when its delay has passed
SetTimer(sc, kind, period) ==
    [sc EXCEPT !.timers = @ \cup {[id |-> sc.nextId, kind |-> kind, period |-> period,
                                   due |-> clock.now + period]},
               !.nextId = @ + 1]

\* clearSchedule without lines 167-170: the one-shot timer is left alone
clearScheduleIntervalOnly(sc) ==
    IF sc.intervalId # NULL
    THEN [ClearTimer(sc, sc.intervalId) EXCEPT !.intervalId = NULL]
    ELSE sc

clearSchedule(sc) ==
    LET a == IF sc.intervalId # NULL
             THEN [ClearTimer(sc, sc.intervalId) EXCEPT !.intervalId = NULL]
             ELSE sc
    IN  IF a.timeoutId # NULL
        THEN [ClearTimer(a, a.timeoutId) EXCEPT !.timeoutId = NULL]
        ELSE a

\* line 180: Math.max(1, Number(intervalMinutes) || 1)
IntervalPeriod(s) == Max(1, IF s.intervalMinutes = 0 THEN 1 ELSE s.intervalMinutes)

\* The texts dailyTime takes in the model: what the user types in the daily
\* time field (line 623 stores it as typed) or what data.json holds
DailyTexts == {"09:00", "21:30", "00:00", "01:30", "02:30", "23:59", "25:99", "7", "", "ab:cd"}

\* line 188: settings.dailyTime || "09:00"
DailyTimeOrDefault(text) == IF text = "" THEN "09:00" ELSE text

\* line 189: dailyTime.split(":")
SplitColon(text) ==
    CASE text = "09:00" -> <<"09", "00">>
      [] text = "21:30" -> <<"21", "30">>
      [] text = "00:00" -> <<"00", "00">>
      [] text = "01:30" -> <<"01", "30">>
      [] text = "02:30" -> <<"02", "30">>
      [] text = "23:59" -> <<"23", "59">>
      [] text = "25:99" -> <<"25", "99">>
      [] text = "7" -> <<"7">>
      [] text = "" -> <<"">>
      [] text = "ab:cd" -> <<"ab", "cd">>

\* lines 190-191: Number(part) || 0; a part that is missing (undefined) or
\* is no number gives NaN, and NaN || 0 is 0
NumberOrZero(parts, i) ==
    IF i > Len(parts) THEN 0
    ELSE CASE parts[i] = "00" -> 0
           [] parts[i] = "01" -> 1
           [] parts[i] = "02" -> 2
           [] parts[i] = "7" -> 7
           [] parts[i] = "09" -> 9
           [] parts[i] = "21" -> 21
           [] parts[i] = "23" -> 23
           [] parts[i] = "25" -> 25
           [] parts[i] = "30" -> 30
           [] parts[i] = "59" -> 59
           [] parts[i] = "99" -> 99
           [] OTHER -> 0

\* lines 190-191: the hour and the minute, clamped
DailyHour(text) == Min(23, Max(0, NumberOrZero(SplitColon(DailyTimeOrDefault(text)), 1)))
DailyMinute(text) == Min(59, Max(0, NumberOrZero(SplitColon(DailyTimeOrDefault(text)), 2)))

\* The delay of lines 192-198 with "next < now" for line 195
DailyDelayNotStrict(c, text) ==
    LET today == SetHours(c.zone, c.now, DailyHour(text), DailyMinute(text))
        next == IF today < c.now THEN AddDay(c.zone, today) ELSE today
    IN  next - c.now

\* lines 192-198: the delay to the next HH:MM
DailyDelay(c, text) ==
    LET today == SetHours(c.zone, c.now, DailyHour(text), DailyMinute(text))
        next == IF today <= c.now THEN AddDay(c.zone, today) ELSE today
    IN  next - c.now

\* setupSchedule without the teardown of line 174
setupScheduleKeepsTimers(sc, s) ==
    IF ~s.scheduleEnabled THEN clearSchedule(sc)
    ELSE IF s.scheduleMode = "interval"
         THEN [SetTimer(sc, "interval", WindowDelay(IntervalPeriod(s) * MinuteUnits))
                  EXCEPT !.intervalId = sc.nextId]
         ELSE [SetTimer(sc, "timeout", WindowDelay(DailyDelay(clock, s.dailyTime)))
                  EXCEPT !.timeoutId = sc.nextId]

setupSchedule(sc, s) ==
    LET c == clearSchedule(sc)
    IN  IF ~s.scheduleEnabled THEN c
        ELSE IF s.scheduleMode = "interval"
             THEN [SetTimer(c, "interval", WindowDelay(IntervalPeriod(s) * MinuteUnits))
                      EXCEPT !.intervalId = c.nextId]
             ELSE [SetTimer(c, "timeout", WindowDelay(DailyDelay(clock, s.dailyTime)))
                      EXCEPT !.timeoutId = c.nextId]

\* The scheduler's state becomes sc
SchedBecomes(sc) ==
    /\ sc.nextId <= MaxTimerId + 1
    /\ timers' = sc.timers
    /\ nextTimerId' = sc.nextId
    /\ scheduleIntervalId' = sc.intervalId
    /\ scheduleTimeoutId' = sc.timeoutId

-----------------------------------------------------------------------------
(* syncAllTasks (main.ts 268-305).  A call is a run: the enabled tasks it  *)
(* filtered when it started (the objects, by identity), how far its loop   *)
(* is, and its counts.  The loop runs on in one turn of the event loop     *)
(* while tasks fail validation (syncTaskInternal returns at once); it      *)
(* stands at the await of line 286 while a task's copy is in flight.       *)
(* outcomes and enabledAtStart record what happened, for the properties.   *)

\* line 291: task.name || task.id
Label(task) == IF task.name # "" THEN task.name ELSE task.id

\* The counting of lines 287-292 with every result counted as a success
AggregateCountsAll(r, task, res) ==
    IF res.ok
    THEN [r EXCEPT !.successCount = @ + 1]
    ELSE [r EXCEPT !.successCount = @ + 1,
                   !.failures = Append(@, <<Label(task), res.reason>>)]

\* lines 287-292: one result added to the counts and to the failure list
Aggregate(r, task, res) ==
    IF res.ok
    THEN [r EXCEPT !.successCount = @ + 1]
    ELSE [r EXCEPT !.failCount = @ + 1,
                   !.failures = Append(@, <<Label(task), res.reason>>)]

\* The loop has finished the task it was at
Completed(r, task, res) ==
    Aggregate([r EXCEPT !.idx = @ + 1,
                        !.outcomes = Append(@, [obj |-> r.tasks[r.idx + 1], ok |-> res.ok,
                                                reason |-> res.reason])],
              task, res)

\* line 275: this.settings.tasks.filter((task) => task.enabled)
EnabledTasks(s, heap) == SelectSeq(s.tasks, LAMBDA o : heap[o].enabled)

\* settingsAtStart records the exclusion patterns and the comparison mode in
\* effect when the call was made, for the properties
NewRun(origin, tasks, s) ==
    [origin |-> origin, tasks |-> tasks, idx |-> 0, status |-> "running",
     pending |-> Invalid(""), successCount |-> 0, failCount |-> 0, failures |-> <<>>,
     outcomes |-> <<>>, enabledAtStart |-> <<>>,
     settingsAtStart |-> [excludePatterns |-> s.excludePatterns,
                          compareMode |-> s.compareMode]]

RECURSIVE Advance(_, _, _)
\* lines 285-304 from the loop's current task on, up to the next await of
\* a copy: "copying" (a validated task's copy is in flight), "done" (the
\* loop is over and the report shown) or "aborted" (an exception left
\* syncTaskInternal, which nothing catches: the call's promise is rejected)
Advance(r, f, heap) ==
    IF r.idx = Len(r.tasks) THEN [r EXCEPT !.status = "done"]
    ELSE LET task == heap[r.tasks[r.idx + 1]]
             v == validateTask(task, f)
             started == [r EXCEPT !.enabledAtStart = Append(@, task.enabled)]
         IN  IF v.threw THEN [started EXCEPT !.status = "aborted"]
             ELSE IF ~v.ok
                  THEN Advance(Completed(started, task, Outcome(v, CopyState(f), FALSE)),
                               f, heap)
                  ELSE [started EXCEPT !.status = "copying", !.pending = v]

\* lines 295-299: the Notice of a finished run
ReportOf(r) ==
    IF r.status # "done" THEN notice
    ELSE IF r.successCount > 0 THEN "sync finished" ELSE "sync failed"

\* syncAllTasks() without the return of lines 276-279
syncAllTasksLoopsAnyway(origin, s, heap) ==
    LET r == Advance(NewRun(origin, EnabledTasks(s, heap), s), fs, heap)
    IN  /\ Len(runs) < MaxRuns
        /\ runs' = Append(runs, r)
        /\ notice' = ReportOf(r)

\* syncAllTasks(), up to its first await
syncAllTasks(origin, s, heap) ==
    LET enabledTasks == EnabledTasks(s, heap)
    IN  IF Len(enabledTasks) = 0
        THEN /\ notice' = "no enabled tasks"
             /\ UNCHANGED runs
        ELSE LET r == Advance(NewRun(origin, enabledTasks, s), fs, heap)
             IN  /\ Len(runs) < MaxRuns
                 /\ runs' = Append(runs, r)
                 /\ notice' = ReportOf(r)

-----------------------------------------------------------------------------
(* The plugin's actions *)

NoSync == [done |-> FALSE]
NoSaves == [edit |-> 0, import |-> 0]

\* A clock: the instant, the zone, the timer fires so far
Clock(now, zone) == [now |-> now, zone |-> zone, fires |-> 0]
NoChange == [at |-> 0, by |-> 0]
\* Noon of the first day, in a zone that keeps its offset
NoonClock == Clock(12 * 60 * MinuteUnits, NoChange)

\* The settings tab, the ribbon icon and the command exist from the end of
\* onload (lines 48-60) until the plugin is unloaded
UiOpen == phase = "loaded" /\ ~unloaded

\* The saveData calls in flight
Pending == saving.edit + saving.import

\* saveSettings() up to its await (line 74): saveData is handed the settings
\* as they are now
saveSettings(s, heap, origin) ==
    /\ Pending < MaxPending
    /\ saving' = [saving EXCEPT ![origin] = @ + 1]
    /\ data' = Serialize(s, heap)

\* onload() is called and waits for loadData (lines 44-45, 70)
OnloadStart ==
    /\ phase = "new"
    /\ phase' = "loading"
    /\ UNCHANGED <<clock, unloaded, data, settings, taskObjs, saving, schedVars, notice, engineVars>>

\* onload with line 64 left out: the bulk run is started whatever
\* autoSyncOnLoad says
LoadDoneAlwaysSyncs ==
    /\ phase = "loading"
    /\ phase' = "loaded"
    /\ LET merged == Assign(data)
           s == Adopt(merged, <<>>)
           heap == AdoptHeap(merged, <<>>)
       IN  /\ settings' = s
           /\ taskObjs' = heap
           /\ SchedBecomes(setupSchedule(Sched, s))
           /\ syncAllTasks("load", s, heap)
    /\ UNCHANGED <<clock, unloaded, data, saving, fs, last, prev>>

\* loadData resolves: loadSettings assigns, then the rest of onload (lines 46-66)
LoadDone ==
    /\ phase = "loading"
    /\ phase' = "loaded"
    /\ LET merged == Assign(data)
           s == Adopt(merged, <<>>)
           heap == AdoptHeap(merged, <<>>)
       IN  /\ settings' = s
           /\ taskObjs' = heap
           /\ SchedBecomes(setupSchedule(Sched, s))
           /\ IF s.autoSyncOnLoad
              THEN syncAllTasks("load", s, heap)
              ELSE UNCHANGED <<runs, notice>>
    /\ UNCHANGED <<clock, unloaded, data, saving, fs, last, prev>>

\* onunload() (lines 100-106)
Onunload ==
    /\ phase # "new"
    /\ ~unloaded
    /\ unloaded' = TRUE
    /\ SchedBecomes(clearSchedule(Sched))
    /\ UNCHANGED <<clock, phase, data, settings, taskObjs, saving, notice, engineVars>>

\* A control of the settings tab changes one field and saves (lines 548-643)
Edit(field, value) ==
    /\ UiOpen
    /\ settings' = [settings EXCEPT ![field] = value]
    /\ saveSettings(settings', taskObjs, "edit")
    /\ UNCHANGED <<clock, phase, unloaded, taskObjs, schedVars, notice, engineVars>>

ToggleAutoSync == \E v \in BOOLEAN : Edit("autoSyncOnLoad", v)
ToggleSchedule == \E v \in BOOLEAN : Edit("scheduleEnabled", v)
\* lines 591-605: shown when the schedule is enabled
SetScheduleMode ==
    /\ settings.scheduleEnabled
    /\ \E m \in {"interval", "daily"} : Edit("scheduleMode", m)
\* lines 607-617: Number(value), 1 when that is not finite
SetIntervalMinutes ==
    /\ settings.scheduleEnabled /\ settings.scheduleMode = "interval"
    /\ \E n \in IntervalInputs : Edit("intervalMinutes", n)
\* lines 618-627
SetDailyTime ==
    /\ settings.scheduleEnabled /\ settings.scheduleMode # "interval"
    /\ \E t \in DailyInputs : Edit("dailyTime", t)

\* What JSON.parse makes of the text of the import dialog: a SyntaxError, a
\* value that is no object (null, a number: Object.assign takes nothing from
\* it), or an object
SyntaxError == [parses |-> FALSE, value |-> <<>>]
NotAnObject == [parses |-> TRUE, value |-> <<>>]
MalformedTexts == {SyntaxError, NotAnObject}
ImportTexts == MalformedTexts \cup {[parses |-> TRUE, value |-> obj] : obj \in ImportInputs}

\* The confirm button of the import dialog (lines 510-519) with this text:
\* importSettings(json) (lines 82-87) up to the await in saveSettings, or up
\* to the catch of line 515 when JSON.parse throws
ImportOf(text) ==
    /\ UiOpen
    /\ IF ~text.parses
       THEN /\ notice' = "import failed"
            /\ UNCHANGED <<clock, settings, taskObjs, saving, data>>
       ELSE LET merged == Assign(text.value)
            IN  /\ settings' = normalizeSettings(Adopt(merged, taskObjs))
                /\ taskObjs' = AdoptHeap(merged, taskObjs)
                /\ saveSettings(settings', taskObjs', "import")
                /\ UNCHANGED notice
    /\ UNCHANGED <<clock, phase, unloaded, schedVars, engineVars>>

ImportSettings == \E text \in ImportTexts : ImportOf(text)

\* saveData resolves: the rest of saveSettings (line 75), then the rest of
\* the handler that awaited it (line 513 for an import)
SaveDone ==
    /\ \E origin \in DOMAIN saving :
          /\ saving[origin] > 0
          /\ saving' = [saving EXCEPT ![origin] = @ - 1]
          /\ notice' = IF origin = "import" THEN "import succeeded" ELSE notice
    /\ SchedBecomes(setupSchedule(Sched, settings))
    /\ UNCHANGED <<clock, phase, unloaded, data, settings, taskObjs, engineVars>>

\* saveData rejects: saveSettings throws at line 74 and line 75 never runs;
\* an import reports it (line 517)
SaveFail ==
    /\ \E origin \in DOMAIN saving :
          /\ saving[origin] > 0
          /\ saving' = [saving EXCEPT ![origin] = @ - 1]
          /\ notice' = IF origin = "import" THEN "import failed" ELSE notice
    /\ UNCHANGED <<clock, phase, unloaded, data, settings, taskObjs, schedVars, engineVars>>

\* The callbacks with a one-shot one that starts no 24-hour timer (lines
\* 201-203 left out)
FireOnce(t, nextDue) ==
    /\ syncAllTasks("timer", settings, taskObjs)
    /\ IF t.kind = "interval"
       THEN /\ timers' = (timers \ {t}) \cup {[t EXCEPT !.due = nextDue]}
            /\ UNCHANGED <<nextTimerId, scheduleIntervalId, scheduleTimeoutId>>
       ELSE SchedBecomes(ClearTimer(Sched, t.id))
    /\ UNCHANGED <<phase, unloaded, data, settings, taskObjs, saving, fs, last, prev>>

\* The callback of a live timer runs.  The recurring one (lines 182-184,
\* 201-203) calls syncAllTasks and is due again at nextDue; the one-shot one
\* (lines 199-204) is spent, calls syncAllTasks and starts the 24-hour timer
Fire(t, nextDue) ==
    /\ syncAllTasks("timer", settings, taskObjs)
    /\ IF t.kind = "interval"
       THEN /\ timers' = (timers \ {t}) \cup {[t EXCEPT !.due = nextDue]}
            /\ UNCHANGED <<nextTimerId, scheduleIntervalId, scheduleTimeoutId>>
       ELSE LET spent == ClearTimer(Sched, t.id)
            IN  SchedBecomes([SetTimer(spent, "interval", WindowDelay(DayUnits))
                                 EXCEPT !.intervalId = spent.nextId])
    /\ UNCHANGED <<phase, unloaded, data, settings, taskObjs, saving, fs, last, prev>>

\* A live timer fires, at whatever time (Spec does not count time)
TimerFire ==
    /\ \E t \in timers : Fire(t, t.due)
    /\ UNCHANGED clock

\* The earliest time a live timer is due
EarliestDue == CHOOSE d \in {t.due : t \in timers} : \A t \in timers : d <= t.due

\* Time passes: up to the moment the next timer is due, or half that far
\* when a timer has just been armed
Tick ==
    /\ timers # {}
    /\ clock.now < EarliestDue
    /\ \E later \in {EarliestDue} \cup
                    {clock.now + (EarliestDue - clock.now) \div 2 :
                        t \in {u \in timers : u.due - u.period = clock.now}} :
          /\ later > clock.now
          /\ clock' = [clock EXCEPT !.now = later]
    /\ UNCHANGED <<phase, unloaded, data, settings, taskObjs, saving, schedVars, notice,
                   engineVars>>

\* A live timer fires when it is due
TimerDue ==
    /\ clock.fires < MaxFires
    /\ \E t \in timers :
          /\ t.due = clock.now
          /\ Fire(t, t.due + t.period)
    /\ clock' = [clock EXCEPT !.fires = @ + 1]

-----------------------------------------------------------------------------
(* Spec: the life cycle and the scheduler.  The user has configured no     *)
(* task, so every syncAllTasks call ends at line 278.                      *)

\* The file system of Spec and SpecBulk
BaseFs ==
    (<<>> :> DirEntry) @@ (<<"ext">> :> DirEntry) @@ (VaultRoot :> DirEntry)
    @@ (<<"ext", "f">> :> FileEntry("x", 3))
    @@ (<<"ext", "dir">> :> DirEntry)
    @@ (<<"ext", "dir", "a">> :> FileEntry("y", 5))
    @@ (<<"ext", "locked">> :> [FileEntry("x", 3) EXCEPT !.readable = FALSE])

Init ==
    /\ phase = "new"
    /\ unloaded = FALSE
    /\ data \in PersistedInputs
    /\ settings = DEFAULT_SETTINGS      \* not read before loadSettings assigns it
    /\ taskObjs = <<>>
    /\ saving = NoSaves
    /\ timers = {}
    /\ nextTimerId = 1
    /\ scheduleIntervalId = NULL
    /\ scheduleTimeoutId = NULL
    /\ notice = ""
    /\ fs = BaseFs
    /\ runs = <<>>
    /\ last = NoSync
    /\ prev = NoSync
    /\ clock = NoonClock

Next ==
    \/ OnloadStart
    \/ LoadDone
    \/ Onunload
    \/ ToggleAutoSync
    \/ ToggleSchedule
    \/ SetScheduleMode
    \/ SetIntervalMinutes
    \/ SetDailyTime
    \/ ImportSettings
    \/ SaveDone
    \/ SaveFail
    \/ TimerFire

Spec == Init /\ [][Next]_vars

\* The timers that are live
LiveTimers == Cardinality(timers)

-----------------------------------------------------------------------------
(* SpecDaily: the plugin starts with the schedule enabled in daily mode     *)
(* (onload, line 62).  The moment of the start, the zone and the stored      *)
(* dailyTime are the inputs.                                                 *)

\* The instant of hour:minute on the first day, counted with the first offset
Hm(hour, minute) == (hour * 60 + minute) * MinuteUnits

\* The value of new Date() at line 192
DailyNows ==
    {Hm(0, 0), Hm(0, 0) + 1, Hm(1, 0), Hm(1, 30), Hm(2, 30), Hm(9, 0) - 1, Hm(9, 0),
     Hm(9, 0) + 1, Hm(21, 30), Hm(23, 59), Hm(23, 59) + 1, DayUnits - 1}

\* The zone of the Date objects: one that keeps its offset, and ones where the
\* clocks go an hour forward or back at 02:00 of the first, the second or the
\* third day
DailyZones ==
    {NoChange} \cup
    {[at |-> day * DayUnits + Hm(2, 0), by |-> by] :
        day \in 0..2, by \in {Hm(1, 0), 0 - Hm(1, 0)}}

\* What loadData returns in SpecDaily
DailyPersisted ==
    {[scheduleEnabled |-> TRUE, scheduleMode |-> "daily", dailyTime |-> text] :
        text \in DailyTexts}

InitDaily ==
    /\ phase = "new"
    /\ unloaded = FALSE
    /\ data \in DailyPersisted
    /\ settings = DEFAULT_SETTINGS
    /\ taskObjs = <<>>
    /\ saving = NoSaves
    /\ timers = {}
    /\ nextTimerId = 1
    /\ scheduleIntervalId = NULL
    /\ scheduleTimeoutId = NULL
    /\ notice = ""
    /\ fs = BaseFs
    /\ runs = <<>>
    /\ last = NoSync
    /\ prev = NoSync
    /\ clock \in {Clock(now, zone) : now \in DailyNows, zone \in DailyZones}

NextDaily ==
    \/ OnloadStart
    \/ LoadDone

SpecDaily == InitDaily /\ [][NextDaily]_vars

-----------------------------------------------------------------------------

(* SpecSync: one task, synced with "sync now" of its row (syncSingleTask,  *)
(* main.ts 307-320, 744-749), once and again.  The plugin is loaded; the   *)
(* task, the settings and the file system are the inputs.                  *)

Task(id, name, source, target) ==
    [id |-> id, name |-> name, sourcePath |-> source, targetPath |-> target,
     enabled |-> TRUE]

SeqsUpTo(S, n) == UNION {[1..k -> S] : k \in 0..n}

\* The plugin after onload, with these settings and task objects
Loaded(s, heap, f) ==
    /\ phase = "loaded"
    /\ unloaded = FALSE
    /\ settings = s
    /\ taskObjs = heap
    /\ data = Serialize(s, heap)
    /\ saving = NoSaves
    /\ timers = {}
    /\ nextTimerId = 1
    /\ scheduleIntervalId = NULL
    /\ scheduleTimeoutId = NULL
    /\ notice = ""
    /\ fs = f
    /\ runs = <<>>
    /\ last = NoSync
    /\ prev = NoSync
    /\ clock = NoonClock

\* f with entry e at path p, the directories above it made
RECURSIVE WithEntry(_, _, _)
WithEntry(f, p, e) ==
    LET g == (p :> e) @@ f
    IN  IF Len(p) <= 1 \/ SubSeq(p, 1, Len(p) - 1) \in DOMAIN f THEN g
        ELSE WithEntry(g, SubSeq(p, 1, Len(p) - 1), DirEntry)

EmptyFs == (<<>> :> DirEntry) @@ (<<"ext">> :> DirEntry) @@ (VaultRoot :> DirEntry)

SourceFile == Str(TRUE, <<"ext", "f">>, FALSE)
SourceDir == Str(TRUE, <<"ext", "dir">>, FALSE)
SourceGone == Str(TRUE, <<"ext", "gone">>, FALSE)

\* Inputs that vary the paths: every target of up to MaxTargetLen segments
\* over TargetSegs (and ".", blank, one that leaves the vault and comes
\* back, and one that goes down before it goes up twice), with a source that is a file or a directory in a vault that is
\* empty or holds "t" as a file or as a directory, or a source that is
\* missing, empty or blank
TargetSegs == {"t", "..", "..x"}
TargetInputs ==
    {Str(abs, segs, trail) : abs \in BOOLEAN, segs \in SeqsUpTo(TargetSegs, MaxTargetLen),
                             trail \in BOOLEAN}
    \cup {Str(FALSE, <<BLANK>>, FALSE), Str(FALSE, <<".">>, FALSE),
          Str(FALSE, <<"..", "vault", "t">>, FALSE),
          Str(FALSE, <<"t", "..", "..", "t">>, FALSE)}
PathFs ==
    (<<"ext", "f">> :> FileEntry("x", 3)) @@ (<<"ext", "dir">> :> DirEntry)
    @@ (<<"ext", "dir", "a">> :> FileEntry("y", 5)) @@ EmptyFs
SourceInputs ==
    {[source |-> src, fs |-> f] :
        src \in {SourceFile, SourceDir},
        f \in {PathFs, WithEntry(PathFs, <<"vault", "t">>, FileEntry("x", 2)),
               WithEntry(PathFs, <<"vault", "t">>, DirEntry)}}
    \cup {[source |-> src, fs |-> PathFs] :
            src \in {SourceGone, EmptyStr, Str(FALSE, <<BLANK>>, FALSE)}}
PathInputs ==
    {[task |-> Task("id1", "n1", in.source, tgt), fs |-> in.fs,
      excludePatterns |-> DEFAULT_SETTINGS.excludePatterns, compareMode |-> "mtime"] :
        in \in SourceInputs, tgt \in TargetInputs}

\* Inputs that vary the trees: a source directory of up to MaxEntries entries,
\* MaxDepth deep, copied to "B" in a vault that is empty or holds one entry
\* where the copy will go
FileNames == {"a", ".DS_Store"}
DirNames == {"d", "nm"}
TreePaths ==
    {p \in SeqsUpTo(FileNames \cup DirNames, MaxDepth) :
        /\ p # <<>>
        /\ \A i \in 1..(Len(p) - 1) : p[i] \in DirNames}

RECURSIVE TreesUpTo(_)
TreesUpTo(k) ==
    IF k = 0 THEN {{}}
    ELSE LET T == TreesUpTo(k - 1)
         IN  T \cup UNION {{t \cup {p} :
                                p \in {q \in TreePaths :
                                          Len(q) = 1 \/ SubSeq(q, 1, Len(q) - 1) \in t}} :
                            t \in T}
Trees == TreesUpTo(MaxEntries)

TreeFs(t) ==
    [q \in DOMAIN EmptyFs \cup {<<"ext", "dir">>} \cup {<<"ext", "dir">> \o p : p \in t} |->
        IF q \in DOMAIN EmptyFs \/ q[Len(q)] \in DirNames \cup {"dir"} THEN DirEntry
        ELSE FileEntry("x", 3)]

\* What the vault may hold where an entry will be copied: a directory, or a
\* file of the same bytes and millisecond, of a later time, of other bytes,
\* of another size
PreEntries == {DirEntry, FileEntry("x", 2), FileEntry("x", 4), FileEntry("y", 2),
               FileEntry("zz", 2)}
TreeFsInputs(t) ==
    {TreeFs(t)} \cup
    {WithEntry(TreeFs(t), <<"vault", "B">> \o p, e) : p \in t \cup {<<>>}, e \in PreEntries}

PatternInputs ==
    { <<>>,
      << <<"**", "nm", "**">>, <<"**", ".DS_Store">> >>,
      << <<"**">> >> }
ModeInputs ==
    {[excludePatterns |-> pats, compareMode |-> "mtime"] : pats \in PatternInputs}
    \cup {[excludePatterns |-> << <<"**", "nm", "**">> >>, compareMode |-> "hash"]}

TreeInputs ==
    UNION {{[task |-> Task("id1", "n1", SourceDir, Str(FALSE, <<"B">>, FALSE)), fs |-> f,
             excludePatterns |-> m.excludePatterns, compareMode |-> m.compareMode] :
                f \in TreeFsInputs(t), m \in ModeInputs} : t \in Trees}

\* The file system of FileInputs: the source file and an empty vault
FileFs == WithEntry(TreeFs({}), <<"ext", "f">>, FileEntry("x", 3))

\* A file task into an existing directory, onto a file, to a new name
FileInputs ==
    {[task |-> Task("id1", "n1", SourceFile, Str(FALSE, <<"B">>, trail)),
      fs |-> f, excludePatterns |-> <<>>, compareMode |-> mode] :
        trail \in BOOLEAN, mode \in {"mtime", "hash"},
        f \in {FileFs} \cup {WithEntry(FileFs, <<"vault", "B">>, e) : e \in PreEntries}}

\* A directory task whose file a cannot be read at the source or at the
\* destination (hashFile rejects, lines 258-266), beside a file that can
LockedFsInputs ==
    LET base == TreeFs({<<"a">>, <<".DS_Store">>})
        dst(e) == WithEntry(base, <<"vault", "B", "a">>, e)
    IN  {dst(FileEntry("x", 2)),
         dst([FileEntry("x", 2) EXCEPT !.readable = FALSE]),
         dst([FileEntry("y", 4) EXCEPT !.readable = FALSE]),
         [dst(FileEntry("x", 2)) EXCEPT ![<<"ext", "dir", "a">>].readable = FALSE]}
LockedInputs ==
    {[task |-> Task("id1", "n1", SourceDir, Str(FALSE, <<"B">>, FALSE)), fs |-> f,
      excludePatterns |-> <<>>, compareMode |-> mode] :
        f \in LockedFsInputs, mode \in {"mtime", "hash"}}

\* A directory task with a malformed pattern in the list (imported or
\* persisted settings: normalizeSettings, line 92, keeps any array), alone or
\* beside a pattern that excludes a directory
MalformedInputs ==
    {[task |-> Task("id1", "n1", SourceDir, Str(FALSE, <<"B">>, FALSE)),
      fs |-> TreeFs({<<"a">>, <<"nm">>, <<"nm", "a">>}),
      excludePatterns |-> pats, compareMode |-> "mtime"] :
        pats \in { <<MalformedPattern>>,
                   <<MalformedPattern, <<"**", "nm", "**">> >>,
                   << <<"**", "nm", "**">>, MalformedPattern >> }}

InitSync ==
    \E in \in PathInputs \cup TreeInputs \cup FileInputs \cup LockedInputs
              \cup MalformedInputs :
        Loaded([DEFAULT_SETTINGS EXCEPT !.tasks = <<1>>,
                                        !.excludePatterns = in.excludePatterns,
                                        !.compareMode = in.compareMode],
               <<in.task>>, in.fs)

\* "sync now" of a task's row: syncSingleTask(task), the whole call
SyncSingleTask ==
    /\ UiOpen
    /\ \E o \in 1..Len(settings.tasks) :
          LET out == syncTaskInternal(taskObjs[settings.tasks[o]], fs, settings)
          IN  /\ fs' = out.fs
              /\ prev' = last
              /\ last' = [done |-> TRUE, task |-> settings.tasks[o], before |-> fs, out |-> out]
              /\ notice' = IF out.threw THEN notice
                           ELSE IF out.ok THEN "task synced" ELSE "task failed"
    /\ UNCHANGED <<clock, phase, unloaded, data, settings, taskObjs, saving, schedVars, runs>>

NextSync == SyncSingleTask

SpecSync == InitSync /\ [][NextSync]_vars

-----------------------------------------------------------------------------
(* SpecBulk: several tasks and "sync all" (syncAllTasks, main.ts 268-305), *)
(* with the enabled toggles of the task rows (lines 751-756) used while    *)
(* runs are in flight.  The plugin is loaded with the tasks of a data.json *)
(* that was written by hand or imported: loadSettings and importSettings   *)
(* take the tasks as they come (lines 70, 83-84, 91).                      *)

TaskIds == <<"id1", "id2", "id3">>
TaskNames == <<"n1", "n2", "n3">>

\* The i-th task of a list, by kind: a file that copies, a source that is
\* missing (the task has no name), a task without sourcePath, a file that
\* cannot be read
TaskOfKind(kind, i) ==
    CASE kind = "file" ->
            Task(TaskIds[i], TaskNames[i], SourceFile, Str(FALSE, <<"A">>, TRUE))
      [] kind = "missing" ->
            Task(TaskIds[i], "", SourceGone, Str(FALSE, <<"A">>, TRUE))
      [] kind = "undefined" ->
            Task(TaskIds[i], TaskNames[i], UNDEFINED, Str(FALSE, <<"A">>, TRUE))
      [] kind = "locked" ->
            Task(TaskIds[i], TaskNames[i], Str(TRUE, <<"ext", "locked">>, FALSE),
                 Str(FALSE, <<"L">>, FALSE))

\* The task lists of SpecBulk: each of these, and each of their beginnings
KindLists ==
    { <<"file", "missing", "file">>,
      <<"locked", "undefined", "file">> }
BulkInputs ==
    {[i \in 1..n |-> TaskOfKind(kinds[i], i)] : kinds \in KindLists, n \in 1..3}

InitBulk ==
    \E tasks \in BulkInputs :
        Loaded([DEFAULT_SETTINGS EXCEPT !.tasks = [i \in 1..Len(tasks) |-> i]], tasks, BaseFs)

\* "sync all" by an engine that keeps state in the tasks: it switches off
\* every task as it starts
SyncNowSwitchesOff ==
    /\ UiOpen
    /\ syncAllTasks("manual", settings, taskObjs)
    /\ taskObjs' = [o \in DOMAIN taskObjs |-> [taskObjs[o] EXCEPT !.enabled = FALSE]]
    /\ UNCHANGED <<clock, phase, unloaded, data, settings, saving, schedVars, fs,
                   last, prev>>

\* The ribbon icon, the command or the "sync all" button (lines 48-60, 562)
SyncNow ==
    /\ UiOpen
    /\ syncAllTasks("manual", settings, taskObjs)
    /\ UNCHANGED <<clock, phase, unloaded, data, settings, taskObjs, saving, schedVars, fs,
                   last, prev>>

\* The copy a run waits for ends (line 286 resumes): its result is counted
\* and the loop goes on to the next await, or to the report
RunCopyDone ==
    \E i \in 1..Len(runs) :
        /\ runs[i].status = "copying"
        /\ LET r == runs[i]
               task == taskObjs[r.tasks[r.idx + 1]]
               st == CopyTask(fs, r.pending, settings)
               after == Advance(Completed(r, task, Outcome(r.pending, st, TRUE)),
                                st.fs, taskObjs)
           IN  /\ runs' = [runs EXCEPT ![i] = after]
               /\ fs' = st.fs
               /\ notice' = ReportOf(after)
        /\ UNCHANGED <<clock, phase, unloaded, data, settings, taskObjs, saving, schedVars,
                       last, prev>>

\* A call that has returned (line 305) or whose promise was rejected is over
RunOver ==
    \E i \in 1..Len(runs) :
        /\ runs[i].status \in {"done", "aborted"}
        /\ runs' = SubSeq(runs, 1, i - 1) \o SubSeq(runs, i + 1, Len(runs))
        /\ UNCHANGED <<clock, phase, unloaded, data, settings, taskObjs, saving, schedVars,
                       notice, fs, last, prev>>

\* The enabled toggle of a task's row (lines 751-756)
ToggleTask ==
    /\ UiOpen
    /\ \E o \in 1..Len(settings.tasks), value \in BOOLEAN :
          /\ taskObjs[settings.tasks[o]].enabled # value
          /\ taskObjs' = [taskObjs EXCEPT ![settings.tasks[o]].enabled = value]
    /\ saveSettings(settings, taskObjs', "edit")
    /\ UNCHANGED <<clock, phase, unloaded, settings, schedVars, notice, engineVars>>

NextBulk ==
    \/ SyncNow
    \/ RunCopyDone
    \/ RunOver
    \/ ToggleTask
    \/ SaveDone
    \/ SaveFail

SpecBulk == InitBulk /\ [][NextBulk]_vars

-----------------------------------------------------------------------------
(* SpecEdit: "sync all" with one or two tasks, and the comparison mode of   *)
(* the settings tab (lines 631-643) changed while runs are in flight.       *)

\* The file system of SpecEdit: the file of the source directory exists at
\* the destination, with the same bytes and another time
EditFs == WithEntry(BaseFs, VaultRoot \o <<"D", "a">>, FileEntry("y", 9))

\* The i-th task of SpecEdit: a directory that copies
EditTask(i) ==
    Task(TaskIds[i], TaskNames[i], SourceDir, Str(FALSE, <<"D">>, FALSE))

\* The task lists of SpecEdit
EditInputs == {[i \in 1..n |-> EditTask(i)] : n \in 1..2}

InitEdit ==
    \E tasks \in EditInputs, mode \in {"mtime", "hash"} :
        Loaded([DEFAULT_SETTINGS EXCEPT !.tasks = [i \in 1..Len(tasks) |-> i],
                                        !.compareMode = mode],
               tasks, EditFs)

\* lines 631-643: the comparison mode dropdown
SetCompareMode == \E mode \in {"mtime", "hash"} : Edit("compareMode", mode)

NextEdit ==
    \/ SyncNow
    \/ SetCompareMode
    \/ RunCopyDone
    \/ RunOver
    \/ SaveDone
    \/ SaveFail

SpecEdit == InitEdit /\ [][NextEdit]_vars

-----------------------------------------------------------------------------

(* SpecOverlap: two bulk runs of one directory task at once (nothing in     *)
(* syncAllTasks, lines 268-305, keeps a second call out).  A run's copy     *)
(* (lines 341-383) is taken file by file and await by await: the filter's   *)
(* decision, fs-extra's stat of the destination, the removal of an existing *)
(* destination file (overwrite), the write of the bytes, and the setting of *)
(* the source's times (preserveTimestamps).  In SpecOverlap a run is a      *)
(* record of where its walk stands.                                         *)

\* The modification time a file gets when it is written during the runs
WriteTime == 40

\* What the destination holds before the runs: nothing, or the directory
\* with file a up to date, of a later time, of other bytes, of another size
OverlapFsInputs ==
    LET src == WithEntry(BaseFs, <<"ext", "dir", "b">>, FileEntry("x", 7))
    IN  {src, WithEntry(src, VaultRoot \o <<"D">>, DirEntry)}
        \cup {WithEntry(src, VaultRoot \o <<"D", "a">>, e) :
                 e \in {FileEntry("y", 4), FileEntry("y", 9), FileEntry("x", 4),
                        FileEntry("zz", 4)}}

InitOverlap ==
    \E f \in OverlapFsInputs, mode \in {"mtime", "hash"} :
        Loaded([DEFAULT_SETTINGS EXCEPT !.tasks = <<1>>, !.compareMode = mode],
               <<EditTask(1)>>, f)

RECURSIVE InOrder(_)
\* The entries of a directory in the order the walk reads them
InOrder(items) ==
    IF items = {} THEN <<>>
    ELSE LET first == CHOOSE p \in items : \A q \in items : p = q \/ p[Len(p)] # "a" \/ q[Len(q)] = "a"
         IN  <<first>> \o InOrder(items \ {first})

\* The walk goes on to the next entry of its queue, or is over
NextEntry(w) ==
    IF Len(w.queue) <= 1
    THEN [w EXCEPT !.queue = <<>>, !.stage = "done"]
    ELSE [w EXCEPT !.queue = Tail(@), !.stage = "decide"]

\* syncAllTasks() with one enabled task, up to the first await of the copy:
\* validateTask, ensureDir, and the copy's look at the two roots
OverlapStart ==
    /\ UiOpen
    /\ Len(runs) < 2
    /\ \E origin \in {"manual", "timer"} :
          LET task == taskObjs[settings.tasks[1]]
              v == validateTask(task, fs)
              ensured == Mkdirs(CopyState(fs), Resolve(Dirname(v.target)), 1)
              src == Resolve(v.source)
              dest == Resolve(v.target)
          IN  /\ v.ok /\ ~ensured.err
              /\ fs' = ensured.fs
              /\ runs' = Append(runs,
                           [origin |-> origin, before |-> fs, src |-> src, dest |-> dest,
                            queue |-> InOrder(Children(fs, src)),
                            stage |-> IF dest \in DOMAIN fs THEN "enter" ELSE "mkdir",
                            settingsAtStart |-> [excludePatterns |-> settings.excludePatterns,
                                                 compareMode |-> settings.compareMode]])
    /\ UNCHANGED <<clock, phase, unloaded, data, settings, taskObjs, saving, schedVars, notice,
                   last, prev>>

\* The copy without preserveTimestamps: a written file keeps the time of
\* its writing
SetTimesNever(f, src, dest) == f

\* preserveTimestamps: the destination file gets the source's times
SetTimes(f, src, dest) == (dest :> [f[dest] EXCEPT !.mtime = DateOf(f[src].mtime)]) @@ f

\* One await of a run's copy resolves
WalkOf(w, f) ==
    LET src == IF w.queue = <<>> THEN w.src ELSE w.queue[1]
        dest == IF w.queue = <<>> THEN w.dest ELSE Append(w.dest, src[Len(src)])
        failed == [walk |-> [w EXCEPT !.stage = "failed"], fs |-> f]
    IN  CASE w.stage = "mkdir" ->
                \* fs.mkdir(dest): EEXIST when the directory is there by now
                IF w.dest \in DOMAIN f THEN failed
                ELSE [walk |-> [w EXCEPT !.stage = "enter"], fs |-> (w.dest :> DirEntry) @@ f]
          [] w.stage = "enter" ->
                [walk |-> IF w.queue = <<>> THEN [w EXCEPT !.stage = "done"]
                          ELSE [w EXCEPT !.stage = "decide"],
                 fs |-> f]
          [] w.stage = "decide" ->
                \* the filter, lines 344-382
                LET decision == Filter(f, w.src, src, dest, w.settingsAtStart.excludePatterns,
                                       w.settingsAtStart.compareMode)
                IN  [walk |-> IF decision = "copy" THEN [w EXCEPT !.stage = "stat"]
                              ELSE IF decision = "throw" THEN [w EXCEPT !.stage = "failed"]
                              ELSE NextEntry(w),
                     fs |-> f]
          [] w.stage = "stat" ->
                \* fs-extra's stat of the destination
                IF dest \in DOMAIN f /\ f[dest].kind # "file" THEN failed
                ELSE [walk |-> [w EXCEPT !.stage = IF dest \in DOMAIN f THEN "unlink"
                                                   ELSE "open"],
                      fs |-> f]
          [] w.stage = "unlink" ->
                \* overwrite: fs.unlink(dest), ENOENT when it is gone by now
                IF dest \notin DOMAIN f THEN failed
                ELSE [walk |-> [w EXCEPT !.stage = "open"],
                      fs |-> [p \in DOMAIN f \ {dest} |-> f[p]]]
          [] w.stage = "open" ->
                \* fs.copyFile: the destination is created or truncated
                [walk |-> [w EXCEPT !.stage = "fill"],
                 fs |-> (dest :> FileEntry("", WriteTime)) @@ f]
          [] w.stage = "fill" ->
                \* fs.copyFile: the bytes are written
                [walk |-> [w EXCEPT !.stage = "utimes"],
                 fs |-> IF dest \in DOMAIN f
                        THEN (dest :> FileEntry(f[src].content, WriteTime)) @@ f
                        ELSE f]
          [] w.stage = "utimes" ->
                \* preserveTimestamps: utimes(dest), ENOENT when it is gone
                IF dest \notin DOMAIN f THEN failed
                ELSE [walk |-> NextEntry(w),
                      fs |-> SetTimes(f, src, dest)]

WalkStep ==
    /\ \E i \in 1..Len(runs) :
          /\ runs[i].stage \notin {"done", "failed"}
          /\ LET after == WalkOf(runs[i], fs)
             IN  /\ runs' = [runs EXCEPT ![i] = after.walk]
                 /\ fs' = after.fs
    /\ UNCHANGED <<clock, phase, unloaded, data, settings, taskObjs, saving, schedVars, notice,
                   last, prev>>

NextOverlap ==
    \/ OverlapStart
    \/ WalkStep

SpecOverlap == InitOverlap /\ [][NextOverlap]_vars

-----------------------------------------------------------------------------

(* SpecLoad: the plugin starts (onload, lines 44-67) from settings with or  *)
(* without autoSyncOnLoad, a schedule and a task; it may be unloaded at any  *)
(* moment, and "sync all" is there once onload has registered it.            *)

\* What loadData returns in SpecLoad
LoadPersisted ==
    {[autoSyncOnLoad |-> auto, tasks |-> tasks] @@ sched :
        auto \in BOOLEAN,
        tasks \in {<<>>, <<TaskOfKind("file", 1)>>, <<TaskOfKind("missing", 1)>>},
        sched \in {[scheduleEnabled |-> FALSE],
                   [scheduleEnabled |-> TRUE, scheduleMode |-> "interval"],
                   [scheduleEnabled |-> TRUE, scheduleMode |-> "daily"]}}

InitLoad ==
    /\ phase = "new"
    /\ unloaded = FALSE
    /\ data \in LoadPersisted
    /\ settings = DEFAULT_SETTINGS
    /\ taskObjs = <<>>
    /\ saving = NoSaves
    /\ timers = {}
    /\ nextTimerId = 1
    /\ scheduleIntervalId = NULL
    /\ scheduleTimeoutId = NULL
    /\ notice = ""
    /\ fs = BaseFs
    /\ runs = <<>>
    /\ last = NoSync
    /\ prev = NoSync
    /\ clock = NoonClock

NextLoad ==
    \/ OnloadStart
    \/ LoadDone
    \/ Onunload
    \/ SyncNow
    \/ RunCopyDone
    \/ RunOver

SpecLoad == InitLoad /\ [][NextLoad]_vars

-----------------------------------------------------------------------------

(* SpecTimed: the plugin starts with the schedule enabled and one task, and *)
(* time passes.  Timers fire when they are due (lines 182-184, 199-204);    *)
(* the user changes a setting that is no schedule field (lines 548-554).    *)

\* The intervalMinutes data.json holds: none, a negative one, small ones, and
\* ones whose milliseconds reach 2^31
IntervalValues == {0, 0 - 5, 1, 2, 35791, 35792, 40000}

\* What loadData returns in SpecTimed
TimedPersisted ==
    {[scheduleEnabled |-> TRUE, scheduleMode |-> "interval", intervalMinutes |-> n,
      tasks |-> <<TaskOfKind("file", 1)>>] : n \in IntervalValues}
    \cup
    {[scheduleEnabled |-> TRUE, scheduleMode |-> "daily", dailyTime |-> text,
      tasks |-> <<TaskOfKind("file", 1)>>] : text \in {"09:00", "21:30"}}

InitTimed ==
    /\ phase = "new"
    /\ unloaded = FALSE
    /\ data \in TimedPersisted
    /\ settings = DEFAULT_SETTINGS
    /\ taskObjs = <<>>
    /\ saving = NoSaves
    /\ timers = {}
    /\ nextTimerId = 1
    /\ scheduleIntervalId = NULL
    /\ scheduleTimeoutId = NULL
    /\ notice = ""
    /\ fs = BaseFs
    /\ runs = <<>>
    /\ last = NoSync
    /\ prev = NoSync
    /\ clock = NoonClock

NextTimed ==
    \/ OnloadStart
    \/ LoadDone
    \/ Tick
    \/ TimerDue
    \/ RunCopyDone
    \/ RunOver
    \/ ToggleAutoSync
    \/ SaveDone
    \/ SaveFail

SpecTimed == InitTimed /\ [][NextTimed]_vars

-----------------------------------------------------------------------------

(* Properties of the scheduler, checked under Spec *)

\* C1: in every reachable state at most one scheduler timer is live, the
\* pending one-shot timeout and the recurring interval counted together.
C1_AtMostOneLiveTimer == LiveTimers <= 1

\* C1's case: the schedule was enabled, disabled and enabled again in interval
\* mode (a second interval timer was armed after the first) and one timer is live
C1_RearmedInterval ==
    /\ nextTimerId >= 3
    /\ settings.scheduleEnabled /\ settings.scheduleMode = "interval"
    /\ scheduleIntervalId # NULL
    /\ LiveTimers = 1

\* C2: once onunload has run no scheduler timer is live, whatever load, save
\* or import was still awaiting its load or persist step at that moment.
C2_NoTimerAfterUnload == unloaded => timers = {}

-----------------------------------------------------------------------------
(* Properties of one task's sync, checked under SpecSync.  They speak of   *)
(* the last sync done (last), of the one before it (prev), and of the file *)
(* system as it was when the last sync started (last.before).              *)

LastTask == taskObjs[last.task]
InsideVault(p) == IsPrefix(VaultRoot, p)

\* Where a relative target path, taken against the vault root, resolves
TargetResolved(task) == Resolve(Join(VaultBase, Normalize(task.targetPath)))
Escapes(task) ==
    /\ ~task.targetPath.undef
    /\ ~TrimIsEmpty(task.targetPath)
    /\ ~IsAbsolute(task.targetPath)
    /\ ~InsideVault(TargetResolved(task))

\* The paths at which two file systems differ
Changed(f, g) ==
    {p \in DOMAIN f \cup DOMAIN g : p \notin DOMAIN f \/ p \notin DOMAIN g \/ f[p] # g[p]}

\* Rules 1-4 of validateTask pass: both paths non-empty, the source exists,
\* the target is relative
PassesRules1to4(task, f) ==
    /\ ~task.sourcePath.undef /\ ~TrimIsEmpty(task.sourcePath)
    /\ ~task.targetPath.undef /\ ~TrimIsEmpty(task.targetPath)
    /\ ExistsSync(f, Normalize(task.sourcePath))
    /\ ~IsAbsolute(task.targetPath)

\* C3: A sync never writes outside the vault root: whenever validateTask
\* returns ok its final target lies inside the vault root, every path a sync
\* writes, makes or changes lies inside it, and a target path that resolves
\* outside the root is rejected; the reason given is "target path must stay
\* inside the vault" when the earlier rules (paths non-empty, source exists)
\* pass.
C3_StaysInsideVault ==
    last.done =>
        /\ last.out.validation.ok => InsideVault(Resolve(last.out.validation.target))
        /\ \A p \in last.out.written \cup last.out.made \cup Changed(last.before, fs) :
              InsideVault(p)
        /\ Escapes(LastTask) =>
              /\ ~last.out.ok
              /\ ~last.out.copied
              /\ PassesRules1to4(LastTask, last.before) => last.out.reason = R_TargetOutside

\* C3, a state where it matters: a target that goes up and comes back down
\* was accepted and written under the vault
C3_DotDotTargetWritten ==
    /\ last.done /\ last.out.ok
    /\ \E i \in 1..Len(LastTask.targetPath.segs) : LastTask.targetPath.segs[i] = ".."
    /\ last.out.written # {}

\* C3 as the spec words it: any target path that resolves outside the root
\* is rejected with the "must stay inside the vault" reason
C3_EscapeAlwaysThatReason ==
    (last.done /\ Escapes(LastTask)) => last.out.reason = R_TargetOutside

\* C7: When validation fails, the sync service writes nothing and returns
\* that failure: the file system is as it was, no directory was made, no
\* file written, and the result is not ok and carries validateTask's reason.
C7_NoWriteOnValidationFailure ==
    (last.done /\ ~validateTask(LastTask, last.before).ok) =>
        /\ fs = last.before
        /\ last.out.fs = last.before
        /\ last.out.written = {} /\ last.out.made = {}
        /\ ~last.out.ok
        /\ last.out.reason = validateTask(LastTask, last.before).reason

\* C7, a state where it matters: a sync was refused (source missing, or target
\* outside the vault) while the target's parent directory did not exist
C7_RefusedBeforeAnyDirectory ==
    /\ last.done
    /\ last.out.reason \in {R_SourceMissing, R_TargetOutside}
    /\ Len(TargetResolved(LastTask)) >= 2
    /\ SubSeq(TargetResolved(LastTask), 1, Len(TargetResolved(LastTask)) - 1)
          \notin DOMAIN last.before

\* The walk of the last sync: its roots, the entries of the source tree by
\* their path relative to the source root, and whether the patterns match a
\* relative path or one of its leading directories
SourceRoot == Resolve(last.out.validation.source)
DestRoot == Resolve(last.out.validation.target)
SourceRels ==
    {SubSeq(p, Len(SourceRoot) + 1, Len(p)) :
        p \in {q \in DOMAIN last.before : IsPrefix(SourceRoot, q) /\ q # SourceRoot}}
MatchedAt(rel, k) == IsMatch(SubSeq(rel, 1, k), settings.excludePatterns, TRUE)

\* C8: During a task's tree walk an entry whose source-relative path matches
\* an exclusion pattern is never created or written at the destination, nor
\* compared; nothing beneath an excluded directory reaches the destination
\* or is visited at all; directories are excluded like files; the root entry
\* is never excluded, whatever the patterns.
C8_ExcludedSubtreePruned ==
    (last.done /\ last.out.copied) =>
        /\ \A rel \in SourceRels :
              /\ (\E k \in 1..Len(rel) : MatchedAt(rel, k)) =>
                    /\ DestRoot \o rel \notin last.out.written \cup last.out.made
                    /\ DestRoot \o rel \notin Changed(last.before, fs)
                    /\ SourceRoot \o rel \notin last.out.visited \cup last.out.skipped
              /\ (\E k \in 1..(Len(rel) - 1) : MatchedAt(rel, k)) =>
                    SourceRoot \o rel \notin last.out.excluded
        /\ SourceRoot \notin last.out.excluded
        /\ last.out.ok => DestRoot \in DOMAIN fs

\* C8, a state where it matters: a sync succeeded and wrote a file while the
\* source held an excluded directory with an entry beneath it
C8_PrunedDirectoryBesideCopiedFile ==
    /\ last.done /\ last.out.ok /\ last.out.written # {}
    /\ \E rel \in SourceRels :
          /\ Len(rel) = 2
          /\ MatchedAt(rel, 1)
          /\ last.before[SourceRoot \o SubSeq(rel, 1, 1)].kind = "dir"
          /\ SourceRoot \o SubSeq(rel, 1, 1) \in last.out.excluded

\* C9: In mtime mode, when a sync of a task succeeds and the source is then
\* unchanged, the sync of the same task that follows at once copies no file
\* and leaves the destination's contents and timestamps as they were.
C9_SecondSyncCopiesNothing ==
    (prev.done /\ last.done /\ prev.out.ok /\ settings.compareMode = "mtime") =>
        /\ last.out.written = {}
        /\ fs = last.before

\* C9 for a task whose source is a directory
C9_SecondSyncOfDirectoryCopiesNothing ==
    (/\ prev.done /\ last.done /\ prev.out.ok /\ settings.compareMode = "mtime"
     /\ IsDirectory(last.before, Normalize(LastTask.sourcePath))) =>
        /\ last.out.written = {}
        /\ fs = last.before

\* The rules of validateTask as the specification numbers them, each by what
\* it says of the task and the file system: the reason of the first that
\* fails, "" when none does
FirstFailingRule(task, f) ==
    IF TrimIsEmpty(task.sourcePath) THEN R_SourceEmpty
    ELSE IF TrimIsEmpty(task.targetPath) THEN R_TargetEmpty
    ELSE IF ~ExistsSync(f, Normalize(task.sourcePath)) THEN R_SourceMissing
    ELSE IF IsAbsolute(task.targetPath) THEN R_TargetAbsolute
    ELSE IF ~InsideVault(TargetResolved(task)) THEN R_TargetOutside
    ELSE IF /\ IsDirectory(f, Normalize(task.sourcePath))
            /\ IsFile(f, Join(VaultBase, Normalize(task.targetPath)))
         THEN R_DirOntoFile
         ELSE ""

\* C10: validateTask returns the reason of the first rule that fails, in the
\* order source empty, target empty, source missing, target absolute, target
\* leaves the vault, directory onto an existing file; it returns ok exactly
\* when no rule fails.
C10_FirstFailingRuleDecides ==
    (last.done /\ ~LastTask.sourcePath.undef /\ ~LastTask.targetPath.undef) =>
        /\ last.out.validation.ok <=> FirstFailingRule(LastTask, last.before) = ""
        /\ ~last.out.validation.ok =>
              last.out.validation.reason = FirstFailingRule(LastTask, last.before)

\* C10 for the targets whose first segment, once normalized, is not a name
\* that merely begins with two dots
C10_FirstFailingRuleDecidesOtherwise ==
    (/\ last.done /\ ~LastTask.sourcePath.undef /\ ~LastTask.targetPath.undef
     /\ ~(\E i \in 1..Len(LastTask.targetPath.segs) :
             LastTask.targetPath.segs[i] \in DotDotNames \ {".."})) =>
        /\ last.out.validation.ok <=> FirstFailingRule(LastTask, last.before) = ""
        /\ ~last.out.validation.ok =>
              last.out.validation.reason = FirstFailingRule(LastTask, last.before)

-----------------------------------------------------------------------------
(* Properties of bulk runs, checked under SpecBulk.  A run records the     *)
(* outcome of every task it finished (outcomes) and, for every task it     *)
(* started, whether the task was enabled at that moment (enabledAtStart).  *)

Failed(r) == SelectSeq(r.outcomes, LAMBDA o : ~o.ok)
Succeeded(r) == SelectSeq(r.outcomes, LAMBDA o : o.ok)

\* C4: In a bulk run every task that was enabled when the run started is
\* attempted and receives an outcome, whatever goes wrong in an earlier
\* task: no run ends by an error that escapes syncAllTasks, and a run that
\* is over has an outcome for each of its tasks.
C4_EveryTaskGetsAnOutcome ==
    \A i \in 1..Len(runs) :
        /\ runs[i].status # "aborted"
        /\ runs[i].status = "done" => Len(runs[i].outcomes) = Len(runs[i].tasks)

\* C4 for the failures syncTaskInternal returns: a run is cut short only by
\* a task whose validation throws
C4_ReturnedFailuresContained ==
    \A i \in 1..Len(runs) :
        /\ runs[i].status = "aborted" =>
              taskObjs[runs[i].tasks[runs[i].idx + 1]].sourcePath.undef
        /\ runs[i].status = "done" =>
              /\ Len(runs[i].outcomes) = Len(runs[i].tasks)
              /\ \A k \in 1..Len(runs[i].tasks) : runs[i].outcomes[k].obj = runs[i].tasks[k]

\* C5: No bulk run starts syncing a task whose enabled flag is false at the
\* moment that task's sync starts, even when the task is disabled while the
\* run is in flight.
C5_StartedOnlyWhileEnabled ==
    \A i \in 1..Len(runs) :
        \A k \in 1..Len(runs[i].enabledAtStart) : runs[i].enabledAtStart[k]

\* The reason a task of SpecBulk fails with: its validation's, or the copy's
OwnReason(task) ==
    IF validateTask(task, BaseFs).ok THEN R_SyncFailed ELSE validateTask(task, BaseFs).reason

-----------------------------------------------------------------------------
(* The final destination of a file source, checked under SpecSync *)

\* The text of a path ends with "/"
TextEndsWithSeparator(s) == s.trail \/ (s.abs /\ s.segs = <<>>)

\* C11: For a regular-file source that passes validation, the final
\* destination is resolvedTarget/basename(source) exactly when the target
\* path's text ends with a path separator or an entry exists at the resolved
\* target and is a directory; in every other case it is the resolved target.
C11_FileDestination ==
    (/\ last.done /\ last.out.validation.ok
     /\ Resolve(Normalize(LastTask.sourcePath)) \in DOMAIN last.before
     /\ last.before[Resolve(Normalize(LastTask.sourcePath))].kind = "file") =>
        LET resolved == TargetResolved(LastTask)
            source == Resolve(Normalize(LastTask.sourcePath))
            final == Resolve(last.out.validation.target)
            into == \/ TextEndsWithSeparator(LastTask.targetPath)
                    \/ (resolved \in DOMAIN last.before /\ last.before[resolved].kind = "dir")
        IN  /\ into => final = Append(resolved, source[Len(source)])
            /\ ~into => final = resolved

\* C11, a state where it matters: a file was synced to a target written
\* without a trailing separator where a directory already was, and landed
\* inside that directory
C11_FileIntoExistingDirectory ==
    /\ last.done /\ last.out.ok
    /\ ~LastTask.targetPath.trail
    /\ Len(TargetResolved(LastTask)) >= 2
    /\ last.before[Resolve(Normalize(LastTask.sourcePath))].kind = "file"
    /\ TargetResolved(LastTask) \in DOMAIN last.before
    /\ Append(TargetResolved(LastTask), "f") \in last.out.written

-----------------------------------------------------------------------------
(* Properties of the import and of the stored settings, checked under Spec *)

\* The import dialog is confirmed with a text that is not the JSON of a
\* settings object
ImportMalformed == \E text \in MalformedTexts : ImportOf(text)

\* C12: An import of malformed settings JSON (text that does not parse, or
\* that parses to something that is not a settings object) is rejected as a
\* whole: failure is reported, and the settings in memory, the persisted
\* settings and the armed schedule are what they were before the call.
C12_MalformedImportRejected ==
    [][ImportMalformed =>
          /\ notice' = "import failed"
          /\ settings' = settings
          /\ taskObjs' = taskObjs
          /\ data' = data
          /\ saving' = saving
          /\ timers' = timers]_vars

\* C12 for a text that does not parse
C12_UnparsableImportRejected ==
    [][ImportOf(SyntaxError) =>
          /\ notice' = "import failed"
          /\ settings' = settings
          /\ taskObjs' = taskObjs
          /\ data' = data
          /\ saving' = saving
          /\ timers' = timers]_vars

\* A text that is a 24-hour HH:MM: two digits, a colon, two digits, the hour
\* at most 23 and the minute at most 59
TwoDigits == {"00", "01", "02", "09", "21", "23", "25", "30", "59", "99"}
IsHHMM(text) ==
    /\ text \in DailyTexts
    /\ Len(SplitColon(text)) = 2
    /\ SplitColon(text)[1] \in TwoDigits /\ SplitColon(text)[2] \in TwoDigits
    /\ NumberOrZero(SplitColon(text), 1) <= 23
    /\ NumberOrZero(SplitColon(text), 2) <= 59

\* C13: In every state after loadSettings has completed, including after any
\* edit in the settings tab and any import, settings.intervalMinutes is a
\* number >= 1, settings.dailyTime is a valid 24-hour HH:MM text,
\* settings.compareMode is "mtime" or "hash" and settings.scheduleMode is
\* "interval" or "daily".
C13_SettingsInvariant ==
    phase = "loaded" =>
        /\ settings.intervalMinutes >= 1
        /\ IsHHMM(settings.dailyTime)
        /\ settings.compareMode \in {"mtime", "hash"}
        /\ settings.scheduleMode \in {"interval", "daily"}

\* C13 for the two enumerated fields after an import: normalizeSettings
\* leaves them one of their values
C13_ImportNormalizesModes ==
    [][(\E text \in ImportTexts : ImportOf(text)) =>
          /\ settings'.compareMode \in {"mtime", "hash"}
          /\ settings'.scheduleMode \in {"interval", "daily"}]_vars

-----------------------------------------------------------------------------
(* Properties of the daily timer, checked under SpecDaily *)

\* The one-shot timer armed for the daily schedule
DailyTimer == CHOOSE t \in timers : t.kind = "timeout"

DailyArmed ==
    /\ phase = "loaded"
    /\ settings.scheduleEnabled
    /\ settings.scheduleMode = "daily"

\* The configured time of day, clamped, from midnight
ClampedHm == Hm(DailyHour(settings.dailyTime), DailyMinute(settings.dailyTime))

\* The zone's offset does not change from the start of today to the end of
\* tomorrow
SteadyZone ==
    \/ clock.zone.by = 0
    \/ clock.zone.at >= (clock.now \div DayUnits + 2) * DayUnits

\* Today's HH:MM when that is still in the future, tomorrow's otherwise
NextAligned ==
    LET midnight == (clock.now \div DayUnits) * DayUnits
    IN  IF midnight + ClampedHm > clock.now THEN midnight + ClampedHm
        ELSE midnight + DayUnits + ClampedHm

\* C14 (amended): in daily mode the one-shot timer is armed with a delay > 0;
\* while the zone's offset does not change the delay is <= 24 hours and the
\* target is today's clamped HH:MM when that is still in the future, and
\* tomorrow's when it has passed or is exactly now; across a change of the
\* offset the delay exceeds 24 hours by at most what the clocks go back
C14_DailyDelay ==
    DailyArmed =>
        /\ \E t \in timers : timers = {t} /\ t.kind = "timeout"
        /\ DailyTimer.due = clock.now + DailyTimer.period
        /\ DailyTimer.period > 0
        /\ DailyTimer.period <= DayUnits + Max(0, 0 - clock.zone.by)
        /\ SteadyZone => /\ DailyTimer.period <= DayUnits
                         /\ DailyTimer.due = NextAligned

\* C14 witness: the plugin started at exactly the configured time of day, and
\* the timer is armed for tomorrow, 24 hours ahead
C14_ArmedForTomorrow ==
    /\ DailyArmed
    /\ SteadyZone
    /\ clock.now % DayUnits = ClampedHm
    /\ DailyTimer.period = DayUnits

\* C14 as stated: the delay is > 0 and <= 24 hours for every current time
C14_DelayWithinDay ==
    DailyArmed =>
        /\ \E t \in timers : timers = {t} /\ t.kind = "timeout"
        /\ DailyTimer.period > 0
        /\ DailyTimer.period <= DayUnits

-----------------------------------------------------------------------------
(* Properties of the timers in time, checked under SpecTimed *)

IntervalArmed ==
    /\ phase = "loaded"
    /\ settings.scheduleEnabled
    /\ settings.scheduleMode = "interval"

\* C15: in interval mode with the schedule enabled, the recurring timer's
\* period is exactly max(1, intervalMinutes) minutes for every stored
\* intervalMinutes
C15_IntervalPeriod ==
    IntervalArmed =>
        \A t \in timers :
            /\ t.kind = "interval"
            /\ t.period = Max(1, settings.intervalMinutes) * MinuteUnits

-----------------------------------------------------------------------------
(* Properties of a bulk run without enabled tasks, checked under SpecBulk *)

NoneEnabled == Len(EnabledTasks(settings, taskObjs)) = 0

\* C16: when no task is enabled at the start of a bulk run, syncAllTasks
\* executes no task and touches no file, and reports "no enabled tasks": no
\* run with counts or a failure list comes to be
C16_NothingRunsWithoutEnabledTasks ==
    [][(SyncNow /\ NoneEnabled) =>
          /\ notice' = "no enabled tasks"
          /\ runs' = runs
          /\ fs' = fs]_vars

\* C16 witness: tasks are configured, all are disabled, and a bulk run has
\* reported "no enabled tasks"
C16_AllDisabledReported ==
    /\ Len(settings.tasks) > 0
    /\ NoneEnabled
    /\ notice = "no enabled tasks"

\* One bulk run is started in this step, by a timer
OneRunStarted ==
    /\ Len(runs') = Len(runs) + 1
    /\ SubSeq(runs', 1, Len(runs)) = runs
    /\ runs'[Len(runs')].origin = "timer"

\* C17: in daily mode a timer fires at the configured time of day; the fire
\* of the one-shot timer starts one bulk run and leaves one recurring timer of
\* period 24 hours, due 24 hours later; a fire of that timer starts one bulk
\* run and the timer is due again 24 hours later
C17_DailyFires ==
    [][(TimerDue /\ settings.scheduleMode = "daily") =>
          /\ clock.now % DayUnits = ClampedHm
          /\ OneRunStarted
          /\ \E t \in timers' :
                /\ timers' = {t}
                /\ t.kind = "interval"
                /\ t.period = DayUnits
                /\ t.due = clock.now + DayUnits]_vars

\* C17 witness: the one-shot timer armed at the start has fired at the first
\* HH:MM and the 24-hour timer it started has fired a day later
C17_SecondDailyFire ==
    /\ settings.scheduleMode = "daily"
    /\ clock.fires = 2
    /\ nextTimerId = 3
    /\ clock.now = DayUnits + ClampedHm
    /\ \E t \in timers : t.kind = "interval" /\ t.due = clock.now + DayUnits

-----------------------------------------------------------------------------
(* The scheduler after setupSchedule, checked under Spec *)

\* The scheduler is in the state the settings dictate
AsConfigured ==
    /\ ~settings.scheduleEnabled => timers = {}
    /\ (settings.scheduleEnabled /\ settings.scheduleMode = "interval") =>
          \E t \in timers :
             /\ timers = {t}
             /\ t.kind = "interval"
             /\ scheduleIntervalId = t.id
             /\ scheduleTimeoutId = NULL
    /\ (settings.scheduleEnabled /\ settings.scheduleMode = "daily") =>
          \E t \in timers :
             /\ timers = {t}
             /\ t.kind = "timeout"
             /\ scheduleTimeoutId = t.id
             /\ scheduleIntervalId = NULL

\* C18: immediately after every setupSchedule call (the end of onload, line
\* 62; the end of saveSettings, line 75) the scheduler is idle with no live
\* timer when the schedule is disabled, has one recurring timer when it is
\* enabled in interval mode, and one one-shot timer when it is enabled in
\* daily mode
C18_AsConfiguredAfterSetup ==
    [][(LoadDone \/ SaveDone) => AsConfigured']_vars

\* C18 witness: timers were armed, the schedule was disabled, every save is
\* through, and no timer is live
C18_IdleAfterDisable ==
    /\ phase = "loaded"
    /\ ~settings.scheduleEnabled
    /\ Pending = 0
    /\ nextTimerId > 2
    /\ timers = {}

\* C19: with the schedule enabled in interval mode, a settings save that
\* changes no schedule field neither cancels nor postpones the pending fire:
\* after the save a timer is due no later than the pending one was
C19_SaveKeepsPendingFire ==
    [][(SaveDone /\ IntervalArmed) =>
          \A t \in timers : \E u \in timers' : u.due <= t.due]_vars

-----------------------------------------------------------------------------
(* Properties of a bulk run while settings are edited, checked under        *)
(* SpecEdit                                                                  *)

\* C20: a bulk run works on the settings in effect when it started: every
\* copy of the run leaves the file system as a copy with the exclusion
\* patterns and the comparison mode of that moment leaves it
C20_CopiesUseSettingsAtStart ==
    [][RunCopyDone =>
          \A i \in 1..Len(runs) :
             (runs[i].status = "copying" /\ runs'[i] # runs[i]) =>
                fs' = CopyTask(fs, runs[i].pending, runs[i].settingsAtStart).fs]_vars

-----------------------------------------------------------------------------
(* Properties of overlapping runs, checked under SpecOverlap *)

\* Every run that was started is over and none of its copies failed
AllWalksDone == runs # <<>> /\ \A i \in 1..Len(runs) : runs[i].stage = "done"

\* The second run started while the first was not over
Overlapped ==
    /\ Len(runs) = 2
    /\ runs[2].before # runs[1].before
    /\ \E p \in DOMAIN runs[2].before : runs[2].before[p].mtime = WriteTime

\* What one run alone leaves, started where the first run started
AloneResult ==
    CopyTask(runs[1].before, validateTask(taskObjs[settings.tasks[1]], runs[1].before),
             settings).fs

\* C21: when bulk runs overlap on the same task with an unchanged source and
\* none of their copies fails, then whatever the interleaving of their
\* decisions and copies, the file system after both have finished is the one
\* a single run alone leaves
C21_OverlapEqualsSingleRun ==
    AllWalksDone => fs = AloneResult

\* C21 witness: two runs have finished without a failure, and the second
\* started while a file the first was writing had not got its times yet
C21_BothFinishedAfterOverlap ==
    /\ AllWalksDone
    /\ Overlapped

-----------------------------------------------------------------------------
(* Properties of the comparison, checked under SpecSync *)

\* The regular files of the source the last sync's filter let through or
\* skipped, by their path relative to the source root (<<>>: the source is
\* itself a file)
IncludedFiles ==
    {SubSeq(p, Len(SourceRoot) + 1, Len(p)) :
        p \in {q \in last.out.visited : last.before[q].kind = "file"}}

\* A regular file is at the destination of the entry and has the source's
\* size and whole millisecond
SameSizeAndMs(rel) ==
    LET src == SourceRoot \o rel
        dest == DestRoot \o rel
    IN  /\ dest \in DOMAIN last.before
        /\ last.before[dest].kind = "file"
        /\ Size(last.before[dest].content) = Size(last.before[src].content)
        /\ FloorMs(last.before[dest].mtime) = FloorMs(last.before[src].mtime)

SkippedIffSameSizeAndMs(rels) ==
    \A rel \in rels :
       /\ (SourceRoot \o rel \in last.out.skipped) <=> SameSizeAndMs(rel)
       /\ (SourceRoot \o rel \in last.out.skipped) => DestRoot \o rel \notin last.out.written

\* C22: in mtime mode the copy of an included regular source file is skipped
\* if and only if a regular file is at the destination with the source's
\* size and the source's modification time in whole milliseconds
C22_MtimeSkipIff ==
    (last.done /\ last.out.copied /\ settings.compareMode = "mtime") =>
        SkippedIffSameSizeAndMs(IncludedFiles)

\* C22 for the files beneath a source directory
C22_MtimeSkipIffBeneathRoot ==
    (last.done /\ last.out.copied /\ settings.compareMode = "mtime") =>
        SkippedIffSameSizeAndMs(IncludedFiles \ {<<>>})

\* A file beneath the source directory was skipped in mtime mode
C22_SkippedBeneathRoot ==
    /\ last.done /\ last.out.copied /\ settings.compareMode = "mtime"
    /\ \E rel \in IncludedFiles \ {<<>>} : SourceRoot \o rel \in last.out.skipped

\* A regular file is at the destination of the entry
RegularAtDest(rel) ==
    /\ DestRoot \o rel \in DOMAIN last.before
    /\ last.before[DestRoot \o rel].kind = "file"

\* The digests of the two files are equal: both can be read and hold the
\* same bytes
SameDigest(rel) ==
    /\ last.before[DestRoot \o rel].readable
    /\ last.before[SourceRoot \o rel].readable
    /\ last.before[DestRoot \o rel].content = last.before[SourceRoot \o rel].content

SkippedIffSameDigest(rels) ==
    \A rel \in {r \in rels : RegularAtDest(r)} :
       (SourceRoot \o rel \in last.out.skipped) <=> SameDigest(rel)

\* C23: in hash mode the copy of an included regular source file with a
\* regular file at the destination is skipped if and only if the two digests
\* are equal, whatever the sizes and the timestamps
C23_HashSkipIff ==
    (last.done /\ last.out.copied /\ settings.compareMode = "hash") =>
        SkippedIffSameDigest(IncludedFiles)

\* C23 for the files beneath a source directory
C23_HashSkipIffBeneathRoot ==
    (last.done /\ last.out.copied /\ settings.compareMode = "hash") =>
        SkippedIffSameDigest(IncludedFiles \ {<<>>})

\* A file beneath the source directory was skipped in hash mode although the
\* destination's time is not the source's
C23_SkippedWithOtherTime ==
    /\ last.done /\ last.out.copied /\ settings.compareMode = "hash"
    /\ \E rel \in IncludedFiles \ {<<>>} :
          /\ SourceRoot \o rel \in last.out.skipped
          /\ ~SameSizeAndMs(rel)

\* Hashing fails for the entry: one of the two files cannot be read
HashFails(rel) ==
    /\ RegularAtDest(rel)
    /\ ~(last.before[SourceRoot \o rel].readable /\ last.before[DestRoot \o rel].readable)

\* The copy of the entry can be made: the source can be read
CanCopy(rel) == last.before[SourceRoot \o rel].readable

\* C24: an I/O error raised while deciding whether a file is unchanged (here:
\* hashing either file) does not abort the task: no exception leaves the
\* sync, the file is not skipped but copied when its source can be read, the
\* other entries of the walk are still visited, and the task fails only if a
\* copy fails
C24_ComparisonErrorMeansCopy ==
    (last.done /\ last.out.copied /\ settings.compareMode = "hash") =>
        \A rel \in {r \in IncludedFiles \ {<<>>} : HashFails(r)} :
           /\ ~last.out.threw
           /\ SourceRoot \o rel \notin last.out.skipped
           /\ CanCopy(rel) =>
                 /\ DestRoot \o rel \in last.out.written
                 /\ fs[DestRoot \o rel].content = last.before[SourceRoot \o rel].content
           /\ \A other \in SourceRels :
                 Len(other) = 1 => SourceRoot \o other \in last.out.visited \cup last.out.excluded
           /\ (\A r \in IncludedFiles : CanCopy(r)) => last.out.ok

\* C24 witness: the destination file could not be read for hashing, the file
\* was copied over it, another file was visited, and the task succeeded
C24_CopiedOverUnreadable ==
    /\ last.done /\ last.out.ok /\ settings.compareMode = "hash"
    /\ \E rel \in IncludedFiles \ {<<>>} :
          /\ HashFails(rel)
          /\ ~last.before[DestRoot \o rel].readable
          /\ DestRoot \o rel \in last.out.written
          /\ IncludedFiles \ {<<>>, rel} # {}

\* The settings with the malformed patterns taken out of the list
WithoutMalformed ==
    [settings EXCEPT !.excludePatterns = SelectSeq(@, LAMBDA pat : pat # MalformedPattern)]

\* C25: a malformed exclusion pattern in the configured list never makes a
\* task fail: the outcome of a sync and the file system it leaves are those
\* of the same sync with the malformed pattern absent
C25_MalformedPatternIgnored ==
    (last.done /\ IsMatchThrows(settings.excludePatterns)) =>
        LET without == syncTaskInternal(LastTask, last.before, WithoutMalformed)
        IN  /\ last.out.ok = without.ok
            /\ fs = without.fs

-----------------------------------------------------------------------------
(* The frame of the engine, checked under SpecBulk *)

-----------------------------------------------------------------------------
(* The scheduler and the settings in memory, checked under Spec *)

\* The timers that are live are those the settings in memory call for; in
\* daily mode that is the one-shot timer or, once it has fired, the 24-hour
\* timer it started
AgreesWithSettings ==
    /\ ~settings.scheduleEnabled => timers = {}
    /\ (settings.scheduleEnabled /\ settings.scheduleMode = "interval") =>
          \E t \in timers : timers = {t} /\ t.kind = "interval"
    /\ (settings.scheduleEnabled /\ settings.scheduleMode = "daily") =>
          \E t \in timers :
             /\ timers = {t}
             /\ t.kind = "timeout" \/ t.period = WindowDelay(DayUnits)

\* C27: whenever no load, save or import is in flight, the scheduler agrees
\* with the settings in memory: no timer is live if scheduleEnabled is false,
\* otherwise exactly one timer of the current mode is live; also after a save
\* or an import whose persist step failed
C27_SchedulerAgreesWhenQuiet ==
    (phase = "loaded" /\ ~unloaded /\ Pending = 0) => AgreesWithSettings

-----------------------------------------------------------------------------
(* Properties of the start of the plugin, checked under SpecLoad *)

\* This step calls syncAllTasks for the load: a run of origin "load" comes to
\* be, or, with no task enabled, its notice
LoadRunStarted ==
    IF Len(EnabledTasks(settings', taskObjs')) = 0
    THEN runs' = runs /\ notice' = "no enabled tasks"
    ELSE /\ Len(runs') = Len(runs) + 1
         /\ SubSeq(runs', 1, Len(runs)) = runs
         /\ runs'[Len(runs')].origin = "load"

\* A run of origin "load" comes to be in this step
LoadRunAppears ==
    /\ Len(runs') = Len(runs) + 1
    /\ runs'[Len(runs')].origin = "load"

\* C28: on plugin load a bulk run is started exactly once if autoSyncOnLoad
\* is true and not at all if it is false, in the step that has loaded the
\* settings and armed the schedule from them; that step happens once, no
\* other step starts a run for the load, and no bulk run exists before the
\* settings are loaded
C28_AutoSyncOnLoadOnce ==
    [][/\ LoadDone =>
             /\ settings' = Adopt(Assign(data), <<>>)
             /\ AsConfigured'
             /\ IF settings'.autoSyncOnLoad THEN LoadRunStarted
                ELSE runs' = runs /\ notice' = notice
       /\ ~LoadDone => ~LoadRunAppears
       /\ phase = "loaded" => phase' = "loaded"
       /\ phase' # "loaded" => runs' = <<>> /\ notice' = ""]_vars

\* C28 witness: the plugin has loaded settings with autoSyncOnLoad and a
\* schedule; the run of the load is in flight and a timer is armed
C28_LoadRunInFlight ==
    /\ phase = "loaded"
    /\ settings.autoSyncOnLoad
    /\ timers # {}
    /\ \E i \in 1..Len(runs) : runs[i].origin = "load" /\ runs[i].status = "copying"

====
